---- MODULE Spec2Model ----
(***************************************************************************)
(* Authorization core of mcp-gateway: BaseProvider.VerifyPermissions       *)
(* (internal/auth/base.go) over the in-memory Directory Store              *)
(* (internal/storage/memory.go).                                           *)
(*                                                                         *)
(* One VerifyPermissions call is modelled step by step: the sequential     *)
(* claim -> role resolution, the errgroup fan-out of GetRole fetches (one  *)
(* goroutine per resolved role, appending under a mutex), g.Wait() and the *)
(* permission-evaluation loop.  The admin writes of the store run between  *)
(* calls, so that a call sees one store snapshot.                          *)
(*                                                                         *)
(* Further specifications over the same variables: StoreSpec (the writes   *)
(* of the store alone), SpecMatch (the wildcard match), MwSpec and         *)
(* MwOldSpec (the HTTP auth middleware, two versions), ScopeSpec (the      *)
(* scope-set policy of the earlier BaseProvider), ConcSpec (several        *)
(* VerifyPermissions calls in flight at once), ProxySpec, ProxySingleSpec  *)
(* and ProxyFairSpec (the backend connection of internal/proxy/proxy.go),  *)
(* RaceSpec (the store operations of concurrent goroutines), RefreshSpec   *)
(* (the periodic tool refresh) and EquivSpec (MemoryStorage next to        *)
(* PostgresStorage).                                                       *)
(***************************************************************************)
EXTENDS Naturals, Integers, Sequences, FiniteSets, TLC

VARIABLES
    proxies,            \* MemoryStorage.proxies: name -> ProxyConfig
    roles,              \* MemoryStorage.roles: name -> RoleConfig
    attributeToRoles,   \* MemoryStorage.attributeToRoles: "key:value" -> AttributeToRolesConfig
    werr,               \* error returned by the last store write ("" is nil)
    pc,                 \* position of the VerifyPermissions call
    claims,             \* argument claims (map claim-key -> value)
    objectType,         \* argument objectType
    proxy,              \* argument proxy
    objectName,         \* argument objectName
    roleNames,          \* local `roles`: the slice returned by attributeToRoles
    gpc,                \* position of each fetch goroutine
    grole,              \* local `role` of each fetch goroutine
    gtmp,               \* the slice value a goroutine read while appending
    mu,                 \* sync.Mutex: 0 free, i held by goroutine i
    list,               \* the shared slice of rolePerm
    gerr,               \* errgroup: the first error recorded (0 none, i goroutine i)
    cancelled,          \* errgroup: the derived context was cancelled
    evaluated,          \* the permission-evaluation loop was entered
    nGetRole,           \* number of storage.GetRole calls issued by this call
    result,             \* value returned by VerifyPermissions
    prevResult,         \* result of the call this one repeats ("none": it repeats none)
    prevRoles,          \* role set resolved by the call this one repeats
    prevKind,           \* how this call repeats the previous one: "none", "same", "extra"
    repeats,            \* number of times the current request was repeated
    mPattern,           \* match harness: patterns of one permission entry
    mValue,             \* match harness: requested values
    mResult,            \* match harness: results
    mDone,              \* match harness: match was applied
    oauth,              \* Server.Config.OAuth: Enabled, AuthorizationServers
    request,            \* the HTTP request in the auth middleware
    handler,            \* authMiddleware: position, locals, response, calls of next
    authCfg,            \* scope-set BaseProvider.authCfg: Permissions, Mappings, Options
    scopeCall,          \* scope-set VerifyPermissions: arguments, locals, result
    calls,              \* concurrent VerifyPermissions calls: position and locals of each
    frames,             \* concurrent calls: the `mu` and `list` variables, by frame
    pClient,            \* proxy.client: "nil" or "open"
    pMu,                \* proxy.mu: 0 free, t held by thread t
    threads,            \* the goroutines that use the proxy: operation, position, locals
    access,             \* MemoryStorage: the store operation each goroutine is inside
    registered,         \* MCPServer: the names of the registered tools
    refresh,            \* addProxyTools: position in the refresh cycle, proxies left, what it listed
    pg,                 \* PostgresStorage: the rows of role, role_permission, attribute_to_roles
    equiv               \* the last storage call made on both backends: its name, errors and values

vars == <<proxies, roles, attributeToRoles, werr, pc, claims, objectType, proxy,
          objectName, roleNames, gpc, grole, gtmp, mu, list, gerr, cancelled,
          evaluated, nGetRole, result, prevResult, prevRoles, prevKind,
          repeats,
          mPattern, mValue, mResult, mDone,
          oauth, request, handler, authCfg, scopeCall, calls, frames,
          pClient, pMu, threads, access, registered, refresh, pg, equiv>>

storeVars == <<proxies, roles, attributeToRoles>>
callVars == <<pc, claims, objectType, proxy, objectName, roleNames, gpc, grole, gtmp, mu,
              list, gerr, cancelled, evaluated, nGetRole, result, prevResult, prevRoles,
              prevKind, repeats>>
goVars == <<gpc, grole, gtmp, mu, list, gerr, cancelled, nGetRole>>
argVars == <<claims, objectType, proxy, objectName>>
repeatVars == <<prevResult, prevRoles, prevKind, repeats>>
matchVars == <<mPattern, mValue, mResult, mDone>>
mwVars == <<oauth, request, handler>>
scopeVars == <<authCfg, scopeCall>>
concVars == <<calls, frames>>
proxyVars == <<pClient, pMu, threads>>
raceVars == <<access>>
toolVars == <<registered>>
refreshVars == <<refresh>>
pgVars == <<pg>>
equivVars == <<equiv>>
laterVars == <<equivVars, pgVars, refreshVars, toolVars, raceVars, proxyVars>>
baseVars == <<storeVars, werr, callVars, matchVars, mwVars, scopeVars, concVars>>
notProxyVars == <<baseVars, raceVars, toolVars, refreshVars, pgVars, equivVars>>
notRaceVars == <<callVars, matchVars, mwVars, scopeVars, concVars, proxyVars, toolVars,
                refreshVars, pgVars, equivVars>>
notRefreshVars == <<roles, attributeToRoles, callVars, matchVars, mwVars, scopeVars, concVars,
                   proxyVars, raceVars, pgVars, equivVars>>
notEquivVars == <<proxies, callVars, matchVars, mwVars, scopeVars, concVars, proxyVars,
                 raceVars, toolVars, refreshVars>>
extVars == <<mwVars, scopeVars, concVars, laterVars>>
coreVars == <<storeVars, werr, callVars, matchVars, laterVars>>

(***************************************************************************)
(* Generic helpers                                                         *)
(***************************************************************************)
Range(s) == {s[i] : i \in 1..Len(s)}

\* every order in which a Go map with key set S can be iterated
Orderings(S) ==
    {s \in [1..Cardinality(S) -> S] : \A i, j \in 1..Cardinality(S) : s[i] = s[j] => i = j}

EmptyMap == [x \in {} |-> 0]

MapPut(m, k, v) == [x \in DOMAIN m \cup {k} |-> IF x = k THEN v ELSE m[x]]

MapDelete(m, k) == [x \in DOMAIN m \ {k} |-> m[x]]

(***************************************************************************)
(* Data: roles, permissions, mappings                                      *)
(***************************************************************************)
ObjectTypeTools == "tools"
ObjectTypeAll == "*"

PermissionConfig(ot, px, on) == [ObjectType |-> ot, Proxy |-> px, ObjectName |-> on]

RoleConfig(name, perms) == [Name |-> name, Permissions |-> perms]

AttributeToRolesConfig(k, v, rs) == [AttributeKey |-> k, AttributeValue |-> v, Roles |-> rs]

ProxyConfig(name, type, authType) == [Name |-> name, Type |-> type, AuthType |-> authType]

(***************************************************************************)
(* Bounds and input domains                                                *)
(***************************************************************************)
\* how many times one request may be repeated after it returned
MaxRepeats == 1

RoleNameSet == {"Admin", "ToolsAdmin"}

ProxyNameSet == {"p2"}

ProxyInputs ==
    {ProxyConfig("p2", "streamable-http", "header"),
     ProxyConfig("p2", "sse", "header"),
     ProxyConfig("p2", "streamable-http", "basic")}

PermissionLists ==
    {<<PermissionConfig("*", "*", "*")>>,
     <<PermissionConfig("tools", "*", "*")>>,
     <<PermissionConfig("tools", "*", "t2"), PermissionConfig("tools", "p2", "*")>>,
     <<PermissionConfig("prompts", "*", "*")>>}

RoleInputs == {RoleConfig(n, ps) : n \in RoleNameSet, ps \in PermissionLists}

AttributeKeySet == {"Groups"}

AttributeValueSet == {"group1", "true"}

RoleLists == {<<>>, <<"Admin">>, <<"ToolsAdmin">>, <<"Admin", "ToolsAdmin">>}

AttributeToRolesInputs ==
    {AttributeToRolesConfig(k, v, rs) :
        k \in AttributeKeySet, v \in AttributeValueSet, rs \in RoleLists}

ObjectTypeInputs == {"tools", "prompts"}

ProxyArgInputs == {"p1", "p2"}

ObjectNameInputs == {"t1"}

(***************************************************************************)
(* Claim values: map[string]interface{}                                    *)
(* A value carries its dynamic type and its elements; an element is a      *)
(* string, a bool or a number.                                             *)
(***************************************************************************)
StrAtom(s) == [kind |-> "string", s |-> s, b |-> FALSE, n |-> 0]
BoolAtom(b) == [kind |-> "bool", s |-> "", b |-> b, n |-> 0]
IntAtom(n) == [kind |-> "int", s |-> "", b |-> FALSE, n |-> n]

StringValue(s) == [type |-> "string", elems |-> <<StrAtom(s)>>]
BoolValue(b) == [type |-> "bool", elems |-> <<BoolAtom(b)>>]
StringsValue(ss) == [type |-> "[]string", elems |-> [i \in 1..Len(ss) |-> StrAtom(ss[i])]]
MixedValue(as) == [type |-> "[]interface{}", elems |-> as]
IntValue(n) == [type |-> "int", elems |-> <<IntAtom(n)>>]
MapValue(s) == [type |-> "map[string]string", elems |-> <<StrAtom(s)>>]

UnsupportedValues == {IntValue(1717000000), MapValue("group1")}

GroupsValues ==
    {StringValue("group1"), BoolValue(TRUE), StringsValue(<<"group2">>),
     StringsValue(<<"group1", "group2">>), StringsValue(<<"group1", "true">>),
     MixedValue(<<BoolAtom(TRUE), IntAtom(7)>>), IntValue(7)}

ExtraKey == "auth_time"

ClaimInputs ==
    {EmptyMap}
    \cup {MapPut(EmptyMap, "Groups", v) : v \in GroupsValues}
    \cup {MapPut(MapPut(EmptyMap, "Groups", v), "email_verified", BoolValue(FALSE)) :
            v \in {StringValue("group1"), StringsValue(<<"group1", "group2">>)}}

\* fmt.Sprint / fmt.Sprintf("%t") of one element
Sprint(a) ==
    CASE a.kind = "string" -> a.s
      [] a.kind = "bool" -> IF a.b THEN "true" ELSE "false"
      [] a.kind = "int" -> ToString(a.n)

(***************************************************************************)
(* MemoryStorage                                                           *)
(***************************************************************************)
\* fmt.Sprintf("%s:%s", attributeKey, attributeValue)
AttributeMapKey(attributeKey, attributeValue) == attributeKey \o ":" \o attributeValue

ProxyTypeIsValid(t) == t = "streamable-http"

ProxyAuthTypeIsValid(t) == t = "header" \/ t = "oauth"

ObjectTypeIsValid(t) == t = ObjectTypeTools \/ t = ObjectTypeAll

\* mutant of SetRoleError: the object types of the entries are not looked at
SetRoleError_anyType(role) ==
    IF role.Name \in DOMAIN roles
    THEN "role already exists"
    ELSE IF \E i \in 1..Len(role.Permissions) :
                /\ role.Permissions[i].Proxy # "*"
                /\ role.Permissions[i].Proxy \notin DOMAIN proxies
    THEN "proxy not found"
    ELSE ""

\* mutant of SetRoleError: a stored name is not looked for
SetRoleError_overwrite(role) ==
    IF \E i \in 1..Len(role.Permissions) : ~ObjectTypeIsValid(role.Permissions[i].ObjectType)
    THEN "invalid object type"
    ELSE IF \E i \in 1..Len(role.Permissions) :
                /\ role.Permissions[i].Proxy # "*"
                /\ role.Permissions[i].Proxy \notin DOMAIN proxies
    THEN "proxy not found"
    ELSE ""

\* the value (error) returned by SetRole: "" is nil
SetRoleError(role) ==
    IF \E i \in 1..Len(role.Permissions) : ~ObjectTypeIsValid(role.Permissions[i].ObjectType)
    THEN "invalid object type"
    ELSE IF role.Name \in DOMAIN roles
    THEN "role already exists"
    ELSE IF \E i \in 1..Len(role.Permissions) :
                /\ role.Permissions[i].Proxy # "*"
                /\ role.Permissions[i].Proxy \notin DOMAIN proxies
    THEN "proxy not found"
    ELSE IF \E i \in 1..Len(role.Permissions) :
                /\ role.Permissions[i].Proxy # "*"
                /\ role.Permissions[i].ObjectType # ObjectTypeAll
                /\ role.Permissions[i].ObjectType # ObjectTypeTools
    THEN "invalid object type"
    ELSE ""

\* the value (error) returned by SetAttributeToRoles: "" is nil
SetAttributeToRolesError(a) ==
    IF AttributeMapKey(a.AttributeKey, a.AttributeValue) \in DOMAIN attributeToRoles
    THEN "attribute to roles already exists"
    ELSE IF \E i \in 1..Len(a.Roles) : a.Roles[i] \notin DOMAIN roles
    THEN "role not found"
    ELSE ""

\* GetRole: <<RoleConfig, err>>
GetRole(role) ==
    IF role \in DOMAIN roles
    THEN [role |-> roles[role], err |-> ""]
    ELSE [role |-> RoleConfig("", <<>>), err |-> "role not found"]

\* ListRoles: the stored roles, in no particular order
ListRoles == {roles[n] : n \in DOMAIN roles}

\* GetAttributeToRoles: <<AttributeToRolesConfig, err>>
GetAttributeToRoles(attributeKey, attributeValue) ==
    IF AttributeMapKey(attributeKey, attributeValue) \in DOMAIN attributeToRoles
    THEN [mapping |-> attributeToRoles[AttributeMapKey(attributeKey, attributeValue)], err |-> ""]
    ELSE [mapping |-> AttributeToRolesConfig("", "", <<>>), err |-> "attribute to roles not found"]

(***************************************************************************)
(* BaseProvider: pure parts                                                *)
(***************************************************************************)
\* mutant of match: a requested "*" matches every pattern too
match_eitherWildcard(pattern, value) == pattern = "*" \/ value = "*" \/ pattern = value

\* mutant of match: the wildcard is not honoured
match_exactOnly(pattern, value) == pattern = value

\* match handles the wildcard "*"
match(pattern, value) == pattern = "*" \/ pattern = value

\* the condition of the evaluation loop for one permission entry
permissionMatches(p, ot, px, on) ==
    /\ match(p.ObjectType, ot)
    /\ match(p.Proxy, px)
    /\ match(p.ObjectName, on)

\* mutant of anyPermission: each dimension may be matched by a different entry
anyPermission_perDimension(permissions, ot, px, on) ==
    /\ \E i \in 1..Len(permissions) : permissions[i].ObjectType \in {"*", ot}
    /\ \E i \in 1..Len(permissions) : permissions[i].Proxy \in {"*", px}
    /\ \E i \in 1..Len(permissions) : permissions[i].ObjectName \in {"*", on}

\* the inner loop: for _, p := range r.permissions
RECURSIVE anyPermission(_, _, _, _)
anyPermission(permissions, ot, px, on) ==
    IF permissions = <<>> THEN FALSE
    ELSE IF permissionMatches(Head(permissions), ot, px, on) THEN TRUE
    ELSE anyPermission(Tail(permissions), ot, px, on)

\* mutant of evaluate: every fetched role must match
evaluate_everyRole(l, ot, px, on) ==
    \A i \in 1..Len(l) : anyPermission(l[i].permissions, ot, px, on)

\* mutant of evaluate: only the first fetched role is looked at
evaluate_firstOnly(l, ot, px, on) ==
    l # <<>> /\ anyPermission(Head(l).permissions, ot, px, on)

\* the outer loop: for _, r := range list
RECURSIVE evaluate(_, _, _, _)
evaluate(l, ot, px, on) ==
    IF l = <<>> THEN FALSE
    ELSE IF anyPermission(Head(l).permissions, ot, px, on) THEN TRUE
    ELSE evaluate(Tail(l), ot, px, on)

\* mutant of lookup: a miss falls back to a default role
lookup_default(claim, value) ==
    LET got == GetAttributeToRoles(claim, value)
    IN  IF got.err # "" \/ Len(got.mapping.Roles) = 0 THEN <<"Admin">> ELSE got.mapping.Roles

lookup(claim, value) ==
    LET got == GetAttributeToRoles(claim, value)
    IN  IF got.err # "" \/ Len(got.mapping.Roles) = 0 THEN <<>> ELSE got.mapping.Roles

\* mutant of appendRoles: the destination is replaced, not extended
appendRoles_overwrite(dst, rs) == Range(rs)

RECURSIVE appendRoles(_, _)
appendRoles(dst, rs) ==
    IF rs = <<>> THEN dst ELSE appendRoles(dst \cup {Head(rs)}, Tail(rs))

\* the type switch: the strings one claim value is looked up under
claimStrings(raw) ==
    CASE raw.type = "string" -> <<raw.elems[1].s>>
      [] raw.type = "bool" -> <<Sprint(raw.elems[1])>>
      [] raw.type = "[]string" -> [i \in 1..Len(raw.elems) |-> raw.elems[i].s]
      [] raw.type = "[]interface{}" -> [i \in 1..Len(raw.elems) |-> Sprint(raw.elems[i])]
      [] OTHER -> <<>>

\* the lookups of one claim entry
RECURSIVE lookupAll(_, _, _)
lookupAll(out, claim, strs) ==
    IF strs = <<>> THEN out
    ELSE lookupAll(appendRoles(out, lookup(claim, Head(strs))), claim, Tail(strs))

\* for claim, raw := range claims, the map iterated in the order `order`
RECURSIVE resolveLoop(_, _, _)
resolveLoop(out, cs, order) ==
    IF order = <<>> THEN out
    ELSE resolveLoop(lookupAll(out, Head(order), claimStrings(cs[Head(order)])), cs, Tail(order))

\* mutant of attributeToRoles: a claim of an unsupported type aborts the resolution
attributeToRoles_strict(cs, order) ==
    IF \E k \in DOMAIN cs : cs[k].type \notin {"string", "bool", "[]string", "[]interface{}"}
    THEN {}
    ELSE resolveLoop({}, cs, order)

\* attributeToRoles: the set `out`; the returned slice is one ordering of it
attributeToRoles_out(cs, order) == resolveLoop({}, cs, order)

(***************************************************************************)
(* Initial state: NewMemoryStorage, no call in progress                    *)
(***************************************************************************)
NoCall ==
    /\ pc = "idle"
    /\ claims = EmptyMap
    /\ objectType = ""
    /\ proxy = ""
    /\ objectName = ""
    /\ roleNames = <<>>
    /\ gpc = <<>>
    /\ grole = <<>>
    /\ gtmp = <<>>
    /\ mu = 0
    /\ list = <<>>
    /\ gerr = 0
    /\ cancelled = FALSE
    /\ evaluated = FALSE
    /\ nGetRole = 0
    /\ result = FALSE
    /\ prevResult = "none"
    /\ prevRoles = {}
    /\ prevKind = "none"
    /\ repeats = 0

NoMatch ==
    /\ mPattern = <<"*", "*", "*">>
    /\ mValue = <<"*", "*", "*">>
    /\ mResult = [dims |-> <<FALSE, FALSE, FALSE>>, all |-> FALSE]
    /\ mDone = FALSE

\* no request in the auth middleware
NoHandler ==
    [pc |-> "idle", message |-> [Method |-> <<>>, Name |-> <<>>], token |-> <<>>,
     claims |-> EmptyMap, args |-> <<>>, vpCalls |-> 0, hasPermission |-> FALSE,
     status |-> "", msg |-> "", nextCalls |-> 0]

NoRequest == [isMCPPath |-> FALSE, body |-> [ok |-> FALSE, Method |-> <<>>, Name |-> <<>>],
              Authorization |-> <<>>]

NoMw ==
    /\ oauth = [Enabled |-> FALSE, AuthorizationServers |-> 0]
    /\ request = NoRequest
    /\ handler = NoHandler

\* no scope-set call
NoScopeCall ==
    [done |-> FALSE, toolName |-> <<>>, claims |-> EmptyMap, flattenedClaims |-> <<>>,
     err |-> "", requiredScopes |-> <<>>, userScopes |-> <<>>, result |-> FALSE,
     prev |-> "none"]

NoScope ==
    /\ authCfg = [Permissions |-> EmptyMap, Mappings |-> EmptyMap,
                  Options |-> [ScopeMode |-> "", DefaultScope |-> <<>>]]
    /\ scopeCall = NoScopeCall

NoConc ==
    /\ calls = <<>>
    /\ frames = <<>>

\* no proxy connection is in use
NoProxy ==
    /\ pClient = "nil"
    /\ pMu = 0
    /\ threads = <<>>

NoAccess == access = <<>>

NoTools == registered = {}

\* addProxyTools sleeps between two cycles
IdleRefresh == [pc |-> "sleep", pending |-> <<>>, listed |-> {}, failed |-> FALSE, cycled |-> FALSE]

NoRefresh == refresh = IdleRefresh

\* the tables after the schema was created
EmptyDb == [role |-> {}, role_permission |-> {}, attribute_to_roles |-> {}]

NoPg == pg = EmptyDb

\* no storage call was made yet
NoStep == [op |-> "", memErr |-> "", pgErr |-> "", memGot |-> {}, pgGot |-> {}]

NoEquiv == equiv = NoStep

NoLater == NoEquiv /\ NoPg /\ NoRefresh /\ NoTools /\ NoAccess /\ NoProxy

NoExt == NoMw /\ NoScope /\ NoConc /\ NoLater

Init ==
    /\ proxies = EmptyMap
    /\ roles = EmptyMap
    /\ attributeToRoles = EmptyMap
    /\ werr = ""
    /\ NoCall
    /\ NoMatch
    /\ NoExt

(***************************************************************************)
(* Admin writes of the store (between calls)                               *)
(***************************************************************************)
SetProxyOf(p) ==
    /\ pc = "idle"
    /\ IF ~ProxyTypeIsValid(p.Type)
       THEN werr' = "invalid proxy type" /\ UNCHANGED proxies
       ELSE IF ~ProxyAuthTypeIsValid(p.AuthType)
       THEN werr' = "invalid proxy auth type" /\ UNCHANGED proxies
       ELSE werr' = "" /\ proxies' = MapPut(proxies, p.Name, p)
    /\ UNCHANGED <<roles, attributeToRoles, callVars, matchVars, extVars>>

SetProxy == \E p \in ProxyInputs : SetProxyOf(p)

DeleteProxyOf(name) ==
    /\ pc = "idle"
    /\ proxies' = MapDelete(proxies, name)
    /\ werr' = ""
    /\ UNCHANGED <<roles, attributeToRoles, callVars, matchVars, extVars>>

DeleteProxy == \E name \in ProxyNameSet : DeleteProxyOf(name)

SetRoleOf(role) ==
    /\ pc = "idle"
    /\ werr' = SetRoleError(role)
    /\ roles' = IF SetRoleError(role) = "" THEN MapPut(roles, role.Name, role) ELSE roles
    /\ UNCHANGED <<proxies, attributeToRoles, callVars, matchVars, extVars>>

SetRole == \E role \in RoleInputs : SetRoleOf(role)

DeleteRoleOf(name) ==
    /\ pc = "idle"
    /\ roles' = MapDelete(roles, name)
    /\ werr' = ""
    /\ UNCHANGED <<proxies, attributeToRoles, callVars, matchVars, extVars>>

DeleteRole == \E name \in RoleNameSet : DeleteRoleOf(name)

SetAttributeToRolesOf(a) ==
    /\ pc = "idle"
    /\ werr' = SetAttributeToRolesError(a)
    /\ attributeToRoles' =
          IF SetAttributeToRolesError(a) = ""
          THEN MapPut(attributeToRoles, AttributeMapKey(a.AttributeKey, a.AttributeValue), a)
          ELSE attributeToRoles
    /\ UNCHANGED <<proxies, roles, callVars, matchVars, extVars>>

SetAttributeToRoles == \E a \in AttributeToRolesInputs : SetAttributeToRolesOf(a)

DeleteAttributeToRoles ==
    /\ pc = "idle"
    /\ \E k \in AttributeKeySet, v \in AttributeValueSet :
        attributeToRoles' = MapDelete(attributeToRoles, AttributeMapKey(k, v))
    /\ werr' = ""
    /\ UNCHANGED <<proxies, roles, callVars, matchVars, extVars>>

(***************************************************************************)
(* BaseProvider.VerifyPermissions                                          *)
(***************************************************************************)
rolePerm(name, permissions) == [name |-> name, permissions |-> permissions]

\* mutant of lockFree: the mutex excludes nobody
lockFree_never(m) == TRUE

\* mu.Lock() may proceed
lockFree(m) == m = 0

\* mutant of allReturned: g.Wait() returns with the first goroutine
allReturned_any(g) == \E i \in 1..Len(g) : g[i] \in {"done", "failed"}

\* g.Wait() may return: every goroutine of the group has returned
allReturned(g) == \A i \in 1..Len(g) : g[i] \in {"done", "failed"}

\* mutant of groupFailed: the error of g.Wait() is dropped
groupFailed_ignored(e) == FALSE

\* if err := g.Wait(); err != nil
groupFailed(e) == e # 0

\* entry of VerifyPermissions up to the start of the fetch goroutines
Invoke(cs, ot, px, on) ==
    \E order \in Orderings(DOMAIN cs) :
      \E rs \in Orderings(attributeToRoles_out(cs, order)) :
        /\ claims' = cs
        /\ objectType' = ot
        /\ proxy' = px
        /\ objectName' = on
        /\ roleNames' = rs
        /\ pc' = IF Len(rs) = 0 THEN "returned" ELSE "wait"
        /\ result' = FALSE
        /\ evaluated' = FALSE
        /\ gpc' = [i \in 1..Len(rs) |-> "get"]
        /\ grole' = [i \in 1..Len(rs) |-> RoleConfig("", <<>>)]
        /\ gtmp' = [i \in 1..Len(rs) |-> <<>>]
        /\ mu' = 0
        /\ list' = <<>>
        /\ gerr' = 0
        /\ cancelled' = FALSE
        /\ nGetRole' = 0

Call ==
    /\ pc = "idle"
    /\ \E cs \in ClaimInputs, ot \in ObjectTypeInputs, px \in ProxyArgInputs,
          on \in ObjectNameInputs : Invoke(cs, ot, px, on)
    /\ werr' = ""
    /\ UNCHANGED <<storeVars, repeatVars, matchVars, extVars>>

\* role, err := b.storage.GetRole(ctx, roleName)
GoGetRole(i) ==
    /\ pc = "wait"
    /\ gpc[i] = "get"
    /\ nGetRole' = nGetRole + 1
    /\ IF GetRole(roleNames[i]).err # ""
       THEN /\ gpc' = [gpc EXCEPT ![i] = "failed"]
            /\ gerr' = IF gerr = 0 THEN i ELSE gerr
            /\ cancelled' = TRUE
            /\ UNCHANGED grole
       ELSE /\ gpc' = [gpc EXCEPT ![i] = "lock"]
            /\ grole' = [grole EXCEPT ![i] = GetRole(roleNames[i]).role]
            /\ UNCHANGED <<gerr, cancelled>>
    /\ UNCHANGED <<storeVars, werr, pc, argVars, roleNames, gtmp, mu, list, evaluated,
                   result, repeatVars, matchVars, extVars>>

\* mu.Lock()
GoLock(i) ==
    /\ pc = "wait"
    /\ gpc[i] = "lock"
    /\ lockFree(mu)
    /\ mu' = i
    /\ gpc' = [gpc EXCEPT ![i] = "read"]
    /\ UNCHANGED <<storeVars, werr, pc, argVars, roleNames, grole, gtmp, list, gerr,
                   cancelled, evaluated, nGetRole, result, repeatVars, matchVars, extVars>>

\* list = append(list, ...): the read of list
GoAppendRead(i) ==
    /\ pc = "wait"
    /\ gpc[i] = "read"
    /\ gtmp' = [gtmp EXCEPT ![i] = list]
    /\ gpc' = [gpc EXCEPT ![i] = "write"]
    /\ UNCHANGED <<storeVars, werr, pc, argVars, roleNames, grole, mu, list, gerr,
                   cancelled, evaluated, nGetRole, result, repeatVars, matchVars, extVars>>

\* list = append(list, ...): the write of list; mu.Unlock(); return nil
GoAppendWrite(i) ==
    /\ pc = "wait"
    /\ gpc[i] = "write"
    /\ list' = Append(gtmp[i], rolePerm(roleNames[i], grole[i].Permissions))
    /\ gtmp' = [gtmp EXCEPT ![i] = <<>>]
    /\ mu' = 0
    /\ gpc' = [gpc EXCEPT ![i] = "done"]
    /\ UNCHANGED <<storeVars, werr, pc, argVars, roleNames, grole, gerr, cancelled,
                   evaluated, nGetRole, result, repeatVars, matchVars, extVars>>

\* g.Wait() returns; then the evaluation loop, unless a fetch failed
WaitAndEvaluate ==
    /\ pc = "wait"
    /\ allReturned(gpc)
    /\ pc' = "returned"
    /\ IF groupFailed(gerr)
       THEN result' = FALSE /\ evaluated' = FALSE
       ELSE result' = evaluate(list, objectType, proxy, objectName) /\ evaluated' = TRUE
    /\ UNCHANGED <<storeVars, werr, argVars, roleNames, goVars, repeatVars, matchVars, extVars>>

\* the caller drops the call's state
Return ==
    /\ pc = "returned"
    /\ pc' = "idle"
    /\ claims' = EmptyMap
    /\ objectType' = ""
    /\ proxy' = ""
    /\ objectName' = ""
    /\ roleNames' = <<>>
    /\ gpc' = <<>>
    /\ grole' = <<>>
    /\ gtmp' = <<>>
    /\ mu' = 0
    /\ list' = <<>>
    /\ gerr' = 0
    /\ cancelled' = FALSE
    /\ evaluated' = FALSE
    /\ nGetRole' = 0
    /\ result' = FALSE
    /\ prevResult' = "none"
    /\ prevRoles' = {}
    /\ prevKind' = "none"
    /\ repeats' = 0
    /\ UNCHANGED <<storeVars, werr, matchVars, extVars>>

\* the caller repeats the call with identical arguments
CallAgain ==
    /\ pc = "returned"
    /\ repeats < MaxRepeats
    /\ Invoke(claims, objectType, proxy, objectName)
    /\ prevResult' = IF result THEN "true" ELSE "false"
    /\ prevRoles' = Range(roleNames)
    /\ prevKind' = "same"
    /\ repeats' = repeats + 1
    /\ UNCHANGED <<storeVars, werr, matchVars, extVars>>

\* the caller repeats the call with one more claim, of an unsupported type
CallAgainExtra ==
    /\ pc = "returned"
    /\ repeats < MaxRepeats
    /\ ExtraKey \notin DOMAIN claims
    /\ \E w \in UnsupportedValues :
          Invoke(MapPut(claims, ExtraKey, w), objectType, proxy, objectName)
    /\ prevResult' = IF result THEN "true" ELSE "false"
    /\ prevRoles' = Range(roleNames)
    /\ prevKind' = "extra"
    /\ repeats' = repeats + 1
    /\ UNCHANGED <<storeVars, werr, matchVars, extVars>>

Next ==
    \/ SetProxy
    \/ DeleteProxy
    \/ SetRole
    \/ DeleteRole
    \/ SetAttributeToRoles
    \/ DeleteAttributeToRoles
    \/ Call
    \/ \E i \in 1..Len(gpc) : GoGetRole(i)
    \/ \E i \in 1..Len(gpc) : GoLock(i)
    \/ \E i \in 1..Len(gpc) : GoAppendRead(i)
    \/ \E i \in 1..Len(gpc) : GoAppendWrite(i)
    \/ WaitAndEvaluate
    \/ Return
    \/ CallAgain
    \/ CallAgainExtra

Spec == Init /\ [][Next]_vars

(***************************************************************************)
(* The Directory Store on its own: the admin writes, no call in progress   *)
(***************************************************************************)
NextStore ==
    \/ SetProxy
    \/ DeleteProxy
    \/ SetRole
    \/ DeleteRole
    \/ SetAttributeToRoles
    \/ DeleteAttributeToRoles

StoreSpec == Init /\ [][NextStore]_vars

(***************************************************************************)
(* The wildcard matching primitive on its own: a permission entry and a    *)
(* request are drawn, and the three matches of the evaluation loop applied *)
(***************************************************************************)
MatchStrings == {"*", "tools", "tool", "t*"}

MatchTriples == {<<a, b, c>> : a \in MatchStrings, b \in MatchStrings, c \in MatchStrings}

InitMatch ==
    /\ proxies = EmptyMap
    /\ roles = EmptyMap
    /\ attributeToRoles = EmptyMap
    /\ werr = ""
    /\ NoCall
    /\ mPattern \in MatchTriples
    /\ mValue \in MatchTriples
    /\ mResult = [dims |-> <<FALSE, FALSE, FALSE>>, all |-> FALSE]
    /\ mDone = FALSE
    /\ NoExt

ApplyMatch ==
    /\ ~mDone
    /\ mDone' = TRUE
    /\ mResult' =
          [dims |-> <<match(mPattern[1], mValue[1]),
                      match(mPattern[2], mValue[2]),
                      match(mPattern[3], mValue[3])>>,
           all |-> permissionMatches(
                      PermissionConfig(mPattern[1], mPattern[2], mPattern[3]),
                      mValue[1], mValue[2], mValue[3])]
    /\ UNCHANGED <<storeVars, werr, callVars, mPattern, mValue, extVars>>

NextMatch == ApplyMatch

SpecMatch == InitMatch /\ [][NextMatch]_vars

(***************************************************************************)
(* The auth middleware (Server.authMiddleware) in front of the decider.    *)
(* A string the middleware splits is a sequence of pieces, a separator     *)
(* being a piece of its own: "p2:t1" is <<"p2", ":", "t1">>.               *)
(***************************************************************************)
RECURSIVE Str(_)
\* the Go string of a sequence of pieces
Str(ps) == IF ps = <<>> THEN "" ELSE Head(ps) \o Str(Tail(ps))

RECURSIVE Split(_, _)
\* strings.Split(s, sep)
Split(s, sep) ==
    IF s = <<>>
    THEN << <<>> >>
    ELSE LET rest == Split(Tail(s), sep)
         IN  IF Head(s) = sep
             THEN << <<>> >> \o rest
             ELSE << <<Head(s)>> \o rest[1] >> \o Tail(rest)

\* strings.TrimPrefix(token, "Bearer ")
TrimPrefix(s, prefix) == IF s # <<>> /\ Head(s) = prefix THEN Tail(s) ELSE s

MethodInputs ==
    {<<"tools", "/", "call">>, <<"tools", "/", "list">>, <<"prompts", "/", "get">>,
     <<"initialize">>}

ToolNameInputs ==
    {<<"p2", ":", "t1">>, <<"p2", ":", "t2">>, <<"p1", ":", "t1">>, <<"t1">>, <<>>}

BodyInputs ==
    {[ok |-> FALSE, Method |-> <<>>, Name |-> <<>>]}
    \cup {[ok |-> TRUE, Method |-> m, Name |-> n] : m \in MethodInputs, n \in ToolNameInputs}

AuthorizationInputs ==
    {<<>>, <<"Bearer ", "good">>, <<"good">>, <<"Bearer ", "guest">>, <<"Bearer ", "bad">>}

RequestInputs ==
    {[isMCPPath |-> TRUE, body |-> b, Authorization |-> a] :
        b \in BodyInputs, a \in AuthorizationInputs}
    \cup {[isMCPPath |-> FALSE, body |-> [ok |-> FALSE, Method |-> <<>>, Name |-> <<>>],
           Authorization |-> <<>>]}

OAuthInputs == [Enabled : BOOLEAN, AuthorizationServers : {0, 1}]

\* Provider.VerifyToken: the tokens the identity provider accepts, and their claims
VerifyToken(token) ==
    CASE token = "good" ->
            [claims |-> MapPut(EmptyMap, "Groups", StringValue("group1")), err |-> ""]
      [] token = "guest" ->
            [claims |-> MapPut(EmptyMap, "Groups", StringValue("group2")), err |-> ""]
      [] OTHER -> [claims |-> EmptyMap, err |-> "invalid token"]

\* parseRequestBody: the decoded message, or the error of the decoder
parseRequestBody(body) ==
    IF body.ok
    THEN [message |-> [Method |-> body.Method, Name |-> body.Name], err |-> ""]
    ELSE [message |-> [Method |-> <<>>, Name |-> <<>>], err |-> "invalid character"]

\* the value returned by BaseProvider.VerifyPermissions(ctx, a1, a2, a3, claims):
\* the arguments bind by position to objectType, proxy, objectName
VerifyPermissionsOf(a1, a2, a3, cs) ==
    LET order == CHOOSE o \in Orderings(DOMAIN cs) : TRUE
        rs == attributeToRoles_out(cs, order)
        names == CHOOSE o \in Orderings(rs) : TRUE
    IN  IF rs = {}
        THEN FALSE
        ELSE IF \E r \in rs : GetRole(r).err # ""
        THEN FALSE
        ELSE evaluate([i \in 1..Len(names) |->
                          rolePerm(names[i], GetRole(names[i]).role.Permissions)],
                      a1, a2, a3)

\* the stores the middleware runs over: written by SetProxy, SetRole and
\* SetAttributeToRoles before the requests arrive
MwStores ==
    {[proxies |-> EmptyMap, roles |-> EmptyMap, attributeToRoles |-> EmptyMap],
     [proxies |-> MapPut(EmptyMap, "p2", ProxyConfig("p2", "streamable-http", "header")),
      roles |-> MapPut(EmptyMap, "ToolsAdmin",
                       RoleConfig("ToolsAdmin", <<PermissionConfig("tools", "p2", "*")>>)),
      attributeToRoles |-> MapPut(EmptyMap, AttributeMapKey("Groups", "group1"),
                                  AttributeToRolesConfig("Groups", "group1", <<"ToolsAdmin">>))],
     [proxies |-> EmptyMap,
      roles |-> MapPut(EmptyMap, "Admin",
                       RoleConfig("Admin", <<PermissionConfig("*", "*", "*")>>)),
      attributeToRoles |-> MapPut(EmptyMap, AttributeMapKey("Groups", "group1"),
                                  AttributeToRolesConfig("Groups", "group1", <<"Admin">>))]}

InitMw ==
    /\ \E st \in MwStores :
          /\ proxies = st.proxies
          /\ roles = st.roles
          /\ attributeToRoles = st.attributeToRoles
    /\ werr = ""
    /\ NoCall
    /\ NoMatch
    /\ oauth \in OAuthInputs
    /\ request = NoRequest
    /\ handler = NoHandler
    /\ NoScope
    /\ NoConc
    /\ NoLater

\* a request enters the middleware
MwRequest ==
    /\ handler.pc \in {"idle", "done"}
    /\ request' \in RequestInputs
    /\ handler' = [NoHandler EXCEPT !.pc = "path"]
    /\ UNCHANGED <<coreVars, scopeVars, concVars, oauth>>

\* return next(c)
next(h) == [h EXCEPT !.pc = "done", !.status = "next", !.nextCalls = h.nextCalls + 1]

\* mutant of unauth: the rejected request is handed to the next handler
unauth_next(h, code, msg) ==
    [h EXCEPT !.pc = "done", !.status = "next", !.nextCalls = h.nextCalls + 1]

\* mutant of unauth: one message for every rejection
unauth_generic(h, code, msg) ==
    IF oauth.Enabled /\ oauth.AuthorizationServers = 0
    THEN [h EXCEPT !.pc = "done", !.status = "500", !.msg = "OAuth configuration error"]
    ELSE [h EXCEPT !.pc = "done", !.status = "401", !.msg = "Unauthorized"]

\* return s.unauth(c, code, msg)
unauth(h, code, msg) ==
    IF oauth.Enabled /\ oauth.AuthorizationServers = 0
    THEN [h EXCEPT !.pc = "done", !.status = "500", !.msg = "OAuth configuration error"]
    ELSE [h EXCEPT !.pc = "done", !.status = "401", !.msg = msg]

\* isMCPPath := c.Path() == "/mcp" && c.Request().Method == "POST"
MwPath ==
    /\ handler.pc = "path"
    /\ handler' = IF ~request.isMCPPath THEN next(handler) ELSE [handler EXCEPT !.pc = "parse"]
    /\ UNCHANGED <<coreVars, scopeVars, concVars, oauth, request>>

\* message, err := s.parseRequestBody(c)
MwParseBody ==
    /\ handler.pc = "parse"
    /\ handler' =
          IF parseRequestBody(request.body).err # ""
          THEN unauth(handler, "invalid_request", "Invalid request")
          ELSE [handler EXCEPT !.pc = "gate",
                               !.message = parseRequestBody(request.body).message]
    /\ UNCHANGED <<coreVars, scopeVars, concVars, oauth, request>>

\* isToolCall := message.Method == "tools/call"
isToolCall(message) == Str(message.Method) = "tools/call"

\* if !isOAuthEnabled && !isToolCall { return next(c) }
MwGate ==
    /\ handler.pc = "gate"
    /\ handler' =
          IF ~oauth.Enabled /\ ~isToolCall(handler.message)
          THEN next(handler)
          ELSE [handler EXCEPT !.pc = "token"]
    /\ UNCHANGED <<coreVars, scopeVars, concVars, oauth, request>>

\* token := c.Request().Header.Get("Authorization"); strings.TrimPrefix
MwToken ==
    /\ handler.pc = "token"
    /\ handler' =
          IF Str(request.Authorization) = ""
          THEN unauth(handler, "missing_token", "Missing token")
          ELSE [handler EXCEPT !.pc = "verify",
                               !.token = TrimPrefix(request.Authorization, "Bearer ")]
    /\ UNCHANGED <<coreVars, scopeVars, concVars, oauth, request>>

\* jwtToken, err := s.Provider.VerifyToken(token)
MwVerifyToken ==
    /\ handler.pc = "verify"
    /\ handler' =
          IF VerifyToken(Str(handler.token)).err # ""
          THEN unauth(handler, "invalid_token", "Invalid token")
          ELSE [handler EXCEPT !.pc = "split",
                               !.claims = VerifyToken(Str(handler.token)).claims]
    /\ UNCHANGED <<coreVars, scopeVars, concVars, oauth, request>>

\* the arguments authMiddleware passes to VerifyPermissions, in order
toolCallArgs(message) ==
    LET objectTypeL == Split(message.Method, "/")[1]
        paramsSplit == Split(message.Name, ":")
        objectNameL == paramsSplit[2]
        proxyName == paramsSplit[1]
    IN  <<Str(objectTypeL), Str(proxyName), Str(objectNameL)>>

\* objectName := paramsSplit[1] panics when the name holds no ":"
MwSplit ==
    /\ handler.pc = "split"
    /\ handler' =
          IF Len(Split(handler.message.Name, ":")) < 2
          THEN [handler EXCEPT !.pc = "done", !.status = "panic"]
          ELSE [handler EXCEPT !.pc = "perm", !.args = toolCallArgs(handler.message)]
    /\ UNCHANGED <<coreVars, scopeVars, concVars, oauth, request>>

\* hasPermission := s.Provider.VerifyPermissions(ctx, objectType, proxyName, objectName, claims)
MwVerifyPermissions ==
    /\ handler.pc = "perm"
    /\ handler' =
          [handler EXCEPT !.pc = "respond",
                          !.vpCalls = handler.vpCalls + 1,
                          !.hasPermission =
                              VerifyPermissionsOf(handler.args[1], handler.args[2],
                                                  handler.args[3], handler.claims)]
    /\ UNCHANGED <<coreVars, scopeVars, concVars, oauth, request>>

\* if !hasPermission { return s.unauth(...) }; c.Set("claims", ...); return next(c)
MwRespond ==
    /\ handler.pc = "respond"
    /\ handler' =
          IF ~handler.hasPermission
          THEN unauth(handler, "insufficient_scope", "Insufficient scope")
          ELSE next(handler)
    /\ UNCHANGED <<coreVars, scopeVars, concVars, oauth, request>>

NextMw ==
    \/ MwRequest
    \/ MwPath
    \/ MwParseBody
    \/ MwGate
    \/ MwToken
    \/ MwVerifyToken
    \/ MwSplit
    \/ MwVerifyPermissions
    \/ MwRespond

MwSpec == InitMw /\ [][NextMw]_vars

(***************************************************************************)
(* The auth middleware as internal/server/middleware.go has it: the token  *)
(* is checked before the body is decoded, a method other than tools/call   *)
(* goes to the next handler, the method is split at ":" and the tool name  *)
(* is passed before the proxy name.                                        *)
(***************************************************************************)
OldMwPath ==
    /\ handler.pc = "path"
    /\ handler' = IF ~request.isMCPPath THEN next(handler) ELSE [handler EXCEPT !.pc = "token"]
    /\ UNCHANGED <<coreVars, scopeVars, concVars, oauth, request>>

\* token := c.Request().Header.Get("Authorization"); strings.TrimPrefix
OldMwToken ==
    /\ handler.pc = "token"
    /\ handler' =
          IF Str(request.Authorization) = ""
          THEN unauth(handler, "missing_token", "Missing token")
          ELSE [handler EXCEPT !.pc = "verify",
                               !.token = TrimPrefix(request.Authorization, "Bearer ")]
    /\ UNCHANGED <<coreVars, scopeVars, concVars, oauth, request>>

\* jwtToken, err := s.Provider.VerifyToken(token)
OldMwVerifyToken ==
    /\ handler.pc = "verify"
    /\ handler' =
          IF VerifyToken(Str(handler.token)).err # ""
          THEN unauth(handler, "invalid_token", "Invalid token")
          ELSE [handler EXCEPT !.pc = "parse",
                               !.claims = VerifyToken(Str(handler.token)).claims]
    /\ UNCHANGED <<coreVars, scopeVars, concVars, oauth, request>>

\* err = dec.Decode(message)
OldMwParseBody ==
    /\ handler.pc = "parse"
    /\ handler' =
          IF parseRequestBody(request.body).err # ""
          THEN unauth(handler, "invalid_request", "Invalid request")
          ELSE [handler EXCEPT !.pc = "gate",
                               !.message = parseRequestBody(request.body).message]
    /\ UNCHANGED <<coreVars, scopeVars, concVars, oauth, request>>

\* if message.Method != "tools/call" { return next(c) }
OldMwGate ==
    /\ handler.pc = "gate"
    /\ handler' =
          IF Str(handler.message.Method) # "tools/call"
          THEN next(handler)
          ELSE [handler EXCEPT !.pc = "split"]
    /\ UNCHANGED <<coreVars, scopeVars, concVars, oauth, request>>

\* the arguments this authMiddleware passes to VerifyPermissions, in order
oldToolCallArgs(message) ==
    LET objectTypeL == Split(message.Method, ":")[1]
        toolSplit == Split(message.Name, ":")
        objectNameL == toolSplit[2]
        proxyName == toolSplit[1]
    IN  <<Str(objectTypeL), Str(objectNameL), Str(proxyName)>>

\* objectName := toolSplit[1] panics when the name holds no ":"
OldMwSplit ==
    /\ handler.pc = "split"
    /\ handler' =
          IF Len(Split(handler.message.Name, ":")) < 2
          THEN [handler EXCEPT !.pc = "done", !.status = "panic"]
          ELSE [handler EXCEPT !.pc = "perm", !.args = oldToolCallArgs(handler.message)]
    /\ UNCHANGED <<coreVars, scopeVars, concVars, oauth, request>>

NextMwOld ==
    \/ MwRequest
    \/ OldMwPath
    \/ OldMwToken
    \/ OldMwVerifyToken
    \/ OldMwParseBody
    \/ OldMwGate
    \/ OldMwSplit
    \/ MwVerifyPermissions
    \/ MwRespond

MwOldSpec == InitMw /\ [][NextMwOld]_vars

(***************************************************************************)
(* Vocabulary of the properties                                            *)
(***************************************************************************)
InCall == pc # "idle"

Returned == pc = "returned"

\* the (claim-key, string representation) pairs of a claim set
ClaimPairs(cs) ==
    UNION {{<<k, claimStrings(cs[k])[i]>> : i \in 1..Len(claimStrings(cs[k]))} : k \in DOMAIN cs}

\* the stored mappings hit by a pair of the claim set
HitMappings(cs) ==
    {attributeToRoles[AttributeMapKey(q[1], q[2])] :
        q \in {q \in ClaimPairs(cs) : AttributeMapKey(q[1], q[2]) \in DOMAIN attributeToRoles}}

\* the roles the claim set resolves to
HitRoles(cs) == UNION {Range(m.Roles) : m \in HitMappings(cs)}

WildcardEntry == PermissionConfig("*", "*", "*")

ToolsEntry == PermissionConfig("tools", "*", "*")

Covers(pattern, value) == pattern = "*" \/ pattern = value

\* one entry covers the three dimensions of the current request
EntryCovers(p) ==
    /\ Covers(p.ObjectType, objectType)
    /\ Covers(p.Proxy, proxy)
    /\ Covers(p.ObjectName, objectName)

\* role r is stored and one of its entries covers the current request
RoleGrants(r) ==
    /\ r \in DOMAIN roles
    /\ \E i \in 1..Len(roles[r].Permissions) : EntryCovers(roles[r].Permissions[i])

AllFetchable(cs) == HitRoles(cs) \subseteq DOMAIN roles

(***************************************************************************)
(* C1: whenever the claim set resolves to no role, VerifyPermissions has   *)
(* returned false, for every request and store state, without issuing any  *)
(* GetRole fetch.                                                          *)
(***************************************************************************)
C1_NoRolesDenied ==
    (InCall /\ HitRoles(claims) = {}) =>
        /\ Returned
        /\ result = FALSE
        /\ nGetRole = 0
        /\ gpc = <<>>

\* a claim value that misses the only mapping, whose role grants everything
C1_Witness ==
    /\ Returned
    /\ ClaimPairs(claims) # {}
    /\ HitRoles(claims) = {}
    /\ \E k \in DOMAIN attributeToRoles : \E r \in Range(attributeToRoles[k].Roles) :
          r \in DOMAIN roles /\ WildcardEntry \in Range(roles[r].Permissions)
    /\ result = FALSE

(***************************************************************************)
(* C2: if a GetRole fetch of a resolved role fails, VerifyPermissions      *)
(* returns false, even when another resolved role, fetched successfully,   *)
(* has an entry matching the request.                                      *)
(***************************************************************************)
C2_FetchFailureDenies ==
    Returned =>
        /\ (\E r \in HitRoles(claims) : r \notin DOMAIN roles) => result = FALSE
        /\ (\E i \in 1..Len(gpc) : gpc[i] = "failed") => (result = FALSE /\ ~evaluated)

\* one resolved role was deleted, the other was fetched and grants the request
C2_Witness ==
    /\ Returned
    /\ \E a, b \in HitRoles(claims) : a \notin DOMAIN roles /\ RoleGrants(b)
    /\ Len(list) = 1
    /\ result = FALSE

(***************************************************************************)
(* C3 (as claimed): if a resolved role has the entry {"*","*","*"},        *)
(* VerifyPermissions returns true for every request.                       *)
(***************************************************************************)
C3_Original ==
    (Returned /\ \E r \in HitRoles(claims) :
                    r \in DOMAIN roles /\ WildcardEntry \in Range(roles[r].Permissions))
        => result = TRUE

(***************************************************************************)
(* C3 (amended): if a resolved role has the entry {"*","*","*"} and every  *)
(* resolved role can be fetched from the store, VerifyPermissions returns  *)
(* true for every request.                                                 *)
(***************************************************************************)
C3_WildcardGrantsAll ==
    (Returned /\ AllFetchable(claims)
              /\ \E r \in HitRoles(claims) : WildcardEntry \in Range(roles[r].Permissions))
        => result = TRUE

\* two resolved roles, one with the wildcard entry, and a "prompts" request
C3_Witness ==
    /\ Returned
    /\ objectType = "prompts"
    /\ Cardinality(HitRoles(claims)) = 2
    /\ AllFetchable(claims)
    /\ \E r \in HitRoles(claims) : WildcardEntry \in Range(roles[r].Permissions)
    /\ result = TRUE

(***************************************************************************)
(* C4: a true result comes from one single entry of one resolved role that *)
(* matches the three dimensions at once; a call whose only resolved role   *)
(* has the single entry {"tools","*","*"} is authorized exactly when the   *)
(* requested objectType is "tools".                                        *)
(***************************************************************************)
C4_SingleEntryAllDimensions ==
    Returned =>
        /\ result = TRUE => \E r \in HitRoles(claims) : RoleGrants(r)
        /\ \A r \in DOMAIN roles :
              (HitRoles(claims) = {r} /\ roles[r].Permissions = <<ToolsEntry>>)
                  => (result = (objectType = "tools"))

\* every dimension is covered by some entry of the role, no entry covers all three
C4_Witness ==
    /\ Returned
    /\ \E r \in DOMAIN roles :
          /\ HitRoles(claims) = {r}
          /\ \E i \in 1..Len(roles[r].Permissions) :
                Covers(roles[r].Permissions[i].ObjectType, objectType)
          /\ \E i \in 1..Len(roles[r].Permissions) :
                Covers(roles[r].Permissions[i].Proxy, proxy)
          /\ \E i \in 1..Len(roles[r].Permissions) :
                Covers(roles[r].Permissions[i].ObjectName, objectName)
          /\ ~RoleGrants(r)
    /\ evaluated
    /\ result = FALSE

(***************************************************************************)
(* C5 (as claimed): if the claim set resolves to two roles and only one of *)
(* them has an entry matching the request, VerifyPermissions returns true. *)
(***************************************************************************)
C5_Original ==
    (Returned /\ Cardinality(HitRoles(claims)) = 2
              /\ \E b \in HitRoles(claims) :
                    RoleGrants(b) /\ \A a \in HitRoles(claims) \ {b} : ~RoleGrants(a))
        => result = TRUE

(***************************************************************************)
(* C5 (amended): if the claim set resolves to two roles that can both be   *)
(* fetched and only one of them has an entry matching the request,         *)
(* VerifyPermissions returns true.                                         *)
(***************************************************************************)
C5_AnyRoleSuffices ==
    (Returned /\ Cardinality(HitRoles(claims)) = 2
              /\ AllFetchable(claims)
              /\ \E b \in HitRoles(claims) :
                    RoleGrants(b) /\ \A a \in HitRoles(claims) \ {b} : ~RoleGrants(a))
        => result = TRUE

\* the role fetched first does not grant the request, the second one does
C5_Witness ==
    /\ Returned
    /\ Len(list) = 2
    /\ ~RoleGrants(list[1].name)
    /\ RoleGrants(list[2].name)
    /\ result = TRUE

(***************************************************************************)
(* C6: the slice returned by attributeToRoles holds exactly the roles of   *)
(* the mappings hit by the (claim-key, representation) pairs of the claim  *)
(* set, each role once.                                                    *)
(***************************************************************************)
C6_ResolveIsUnion ==
    InCall =>
        /\ Range(roleNames) = HitRoles(claims)
        /\ Len(roleNames) = Cardinality(Range(roleNames))

\* a list-valued claim with a hit, a miss, or two hits that share a role
C6_Witness ==
    /\ InCall
    /\ "Groups" \in DOMAIN claims
    /\ claims["Groups"].type = "[]string"
    /\ Cardinality(HitMappings(claims)) = 2
    /\ \E m1, m2 \in HitMappings(claims) :
          m1 # m2 /\ Range(m1.Roles) \cap Range(m2.Roles) # {}
    /\ Len(roleNames) = 2

(***************************************************************************)
(* C7: match(pattern, value) is true exactly when pattern is "*" or equals *)
(* value: no prefix or glob matching, and a requested "*" matches only the *)
(* pattern "*"; an entry matches when its three fields match the three     *)
(* requested values, each by that rule.                                    *)
(***************************************************************************)
C7_MatchIsWildcardOrEqual ==
    mDone =>
        /\ \A d \in 1..3 : mResult.dims[d] = (mPattern[d] = "*" \/ mPattern[d] = mValue[d])
        /\ \A d \in 1..3 : (mValue[d] = "*" /\ mPattern[d] # "*") => ~mResult.dims[d]
        /\ mResult.all = (\A d \in 1..3 : mResult.dims[d])

\* a glob-like pattern, a requested "*" and the wildcard pattern, side by side
C7_Witness ==
    /\ mDone
    /\ mPattern = <<"t*", "tools", "*">>
    /\ mValue = <<"tools", "*", "tool">>
    /\ mResult.dims = <<FALSE, FALSE, TRUE>>
    /\ mResult.all = FALSE

(***************************************************************************)
(* C8: a call repeated with identical arguments on the unchanged store     *)
(* returns what the first call returned, and no step of a call changes the *)
(* proxies, roles or mappings of the store.                                *)
(***************************************************************************)
C8_Idempotent ==
    /\ []((Returned /\ prevKind = "same") => (result = (prevResult = "true")))
    /\ [][(InCall \/ InCall') => UNCHANGED storeVars]_vars

\* a repeated call over two fetched roles, authorized by the second of the list
C8_Witness ==
    /\ Returned
    /\ prevKind = "same"
    /\ prevResult = "true"
    /\ Len(list) = 2
    /\ ~RoleGrants(list[1].name)
    /\ result = TRUE

(***************************************************************************)
(* C9: a call repeated with one more claim, whose value has an unsupported *)
(* type, resolves the same roles and returns the same result.              *)
(***************************************************************************)
C9_UnsupportedClaimIgnored ==
    (InCall /\ prevKind = "extra") =>
        /\ Range(roleNames) = prevRoles
        /\ Returned => (result = (prevResult = "true"))

\* an authorized call stays authorized with a map-valued claim added
C9_Witness ==
    /\ Returned
    /\ prevKind = "extra"
    /\ claims[ExtraKey].type = "map[string]string"
    /\ prevRoles # {}
    /\ result = TRUE

(***************************************************************************)
(* C10: when every fetch succeeds, the evaluation starts only after every  *)
(* fetch goroutine has returned, the list then holds exactly one element   *)
(* per resolved role, with that role's permissions, and the result is the  *)
(* same whatever the interleaving: some resolved role grants the request.  *)
(***************************************************************************)
C10_FanOutAggregation ==
    /\ evaluated => \A i \in 1..Len(gpc) : gpc[i] = "done"
    /\ Cardinality({i \in 1..Len(gpc) : gpc[i] \in {"read", "write"}}) <= 1
    /\ (Returned /\ roleNames # <<>> /\ AllFetchable(claims)) =>
          /\ evaluated
          /\ Len(list) = Len(roleNames)
          /\ \A i \in 1..Len(roleNames) :
                /\ Cardinality({j \in 1..Len(list) : list[j].name = roleNames[i]}) = 1
                /\ \A j \in 1..Len(list) :
                      list[j].name = roleNames[i]
                          => list[j].permissions = roles[roleNames[i]].Permissions
          /\ result = (\E r \in HitRoles(claims) : RoleGrants(r))

\* the goroutine started second appended first
C10_Witness ==
    /\ Returned
    /\ evaluated
    /\ Len(list) = 2
    /\ list[1].name = roleNames[2]
    /\ list[2].name = roleNames[1]
    /\ RoleGrants(list[2].name)
    /\ ~RoleGrants(list[1].name)

(***************************************************************************)
(* The same program with the scheduling of the Go runtime: a fetch         *)
(* goroutine that can take a step eventually takes it, and g.Wait()        *)
(* returns once every goroutine of the group has returned.                 *)
(***************************************************************************)
FairSpec ==
    /\ Spec
    /\ \A i \in 1..Cardinality(RoleNameSet) :
          /\ WF_vars(i <= Len(gpc) /\ GoGetRole(i))
          /\ WF_vars(i <= Len(gpc) /\ GoLock(i))
          /\ WF_vars(i <= Len(gpc) /\ GoAppendRead(i))
          /\ WF_vars(i <= Len(gpc) /\ GoAppendWrite(i))
    /\ WF_vars(WaitAndEvaluate)

\* no fetch goroutine of the call is still running
FetchesOver == \A i \in 1..Len(gpc) : gpc[i] \in {"done", "failed"}

(***************************************************************************)
(* C11: once a role fetch has failed, the context of the group is          *)
(* cancelled, the evaluation loop is never executed, and the call          *)
(* terminates with false, after every fetch goroutine has returned; the    *)
(* evaluation loop only ever runs over a list with every resolved role.    *)
(***************************************************************************)
C11_FailedFetchTerminatesFalse ==
    /\ [](groupFailed(gerr) => (cancelled /\ ~evaluated))
    /\ []((Returned /\ groupFailed(gerr)) => (result = FALSE /\ FetchesOver))
    /\ [](evaluated => (~groupFailed(gerr) /\ Len(list) = Len(roleNames)))
    /\ ((pc = "wait" /\ groupFailed(gerr))
            ~> (Returned /\ result = FALSE /\ ~evaluated /\ FetchesOver))

\* the first fetch failed, its sibling still appended its role before the return
C11_Witness ==
    /\ Returned
    /\ cancelled
    /\ gerr = 1
    /\ gpc = <<"failed", "done">>
    /\ Len(list) = 1
    /\ RoleGrants(list[1].name)
    /\ ~evaluated
    /\ result = FALSE

\* every stored mapping has a non-empty role list
NonEmptyRoleLists ==
    \A k \in DOMAIN attributeToRoles : Len(attributeToRoles[k].Roles) > 0

\* a mapping that names a role not in the store is refused and nothing is
\* stored; an accepted mapping names stored roles only
MissingRoleRejected ==
    \A a \in AttributeToRolesInputs :
        SetAttributeToRolesOf(a) =>
            IF \E i \in 1..Len(a.Roles) : a.Roles[i] \notin DOMAIN roles
            THEN werr' # "" /\ UNCHANGED storeVars
            ELSE werr' = "" => Range(a.Roles) \subseteq DOMAIN roles

(***************************************************************************)
(* C13 (as claimed): after any sequence of store writes, every stored      *)
(* attribute-to-role mapping has a non-empty role list, and every role it  *)
(* names was in the store when the mapping was written:                    *)
(* SetAttributeToRoles naming a role not in the store returns an error and *)
(* stores nothing.                                                         *)
(***************************************************************************)
C13_Original == []NonEmptyRoleLists /\ [][MissingRoleRejected]_vars

\* the half of C13 that MemoryStorage enforces
C13_MissingRoleRejected == [][MissingRoleRejected]_vars

\* the object types the store recognises
RecognisedType(t) == t = "*" \/ t = "tools"

(***************************************************************************)
(* C14: after any sequence of store writes, every permission entry of      *)
(* every stored role has objectType "*" or "tools"; SetRole with an entry  *)
(* of any other objectType returns an error and leaves the stored roles    *)
(* unchanged.                                                              *)
(***************************************************************************)
C14_StoredObjectTypesValid ==
    /\ [](\A r \in ListRoles : \A i \in 1..Len(r.Permissions) :
              RecognisedType(r.Permissions[i].ObjectType))
    /\ [][\A role \in RoleInputs :
              (SetRoleOf(role) /\ \E i \in 1..Len(role.Permissions) :
                                      ~RecognisedType(role.Permissions[i].ObjectType))
                  => (werr' # "" /\ UNCHANGED roles)]_vars

\* a "prompts" role was refused while another role and a proxy are stored
C14_Witness ==
    /\ werr = "invalid object type"
    /\ Cardinality(ListRoles) = 1
    /\ DOMAIN proxies # {}

InHandler == handler.pc # "idle"

Responded == handler.pc = "done"

\* a POST /mcp request whose body parses
ParsedMCP == request.isMCPPath /\ request.body.ok

ToolCallRequest == ParsedMCP /\ Str(request.body.Method) = "tools/call"

TokenPresent == Str(request.Authorization) # ""

TokenValid ==
    /\ TokenPresent
    /\ VerifyToken(Str(TrimPrefix(request.Authorization, "Bearer "))).err = ""

\* the middleware let the request through without any check
LetThrough == ParsedMCP /\ ~oauth.Enabled /\ Str(request.body.Method) # "tools/call"

\* unauth cannot build the WWW-Authenticate header
Misconfigured == oauth.Enabled /\ oauth.AuthorizationServers = 0

Rejected(msg) == handler.status = "401" /\ handler.msg = msg /\ handler.nextCalls = 0

\* rejected with the message, or with the configuration error of unauth
RejectedOrMisconfigured(msg) ==
    /\ handler.nextCalls = 0
    /\ IF Misconfigured
       THEN handler.status = "500" /\ handler.msg = "OAuth configuration error"
       ELSE handler.status = "401" /\ handler.msg = msg

PermissionDenied == handler.vpCalls > 0 /\ ~handler.hasPermission /\ Responded

(***************************************************************************)
(* C15 (as claimed): for a POST /mcp tools/call request, the next handler  *)
(* is invoked only if VerifyToken succeeded and VerifyPermissions returned *)
(* true, whether OAuth is enabled or not; when VerifyPermissions returns   *)
(* false the request is rejected with HTTP 401 "Insufficient scope" and    *)
(* the next handler is never invoked.                                      *)
(***************************************************************************)
C15_Original ==
    (InHandler /\ ToolCallRequest) =>
        /\ handler.nextCalls > 0 =>
              (TokenValid /\ handler.vpCalls = 1 /\ handler.hasPermission)
        /\ PermissionDenied => Rejected("Insufficient scope")

(***************************************************************************)
(* C15 (amended): as claimed, except that the rejection is HTTP 500        *)
(* "OAuth configuration error" when OAuth is enabled with no authorization *)
(* server configured; the next handler is never invoked in either case.    *)
(***************************************************************************)
C15_NextOnlyIfPermitted ==
    (InHandler /\ ToolCallRequest) =>
        /\ handler.nextCalls > 0 =>
              (TokenValid /\ handler.vpCalls = 1 /\ handler.hasPermission)
        /\ PermissionDenied => RejectedOrMisconfigured("Insufficient scope")

\* OAuth disabled, a valid token of a user without role, a tool call: 401
C15_Witness ==
    /\ Responded
    /\ ToolCallRequest
    /\ ~oauth.Enabled
    /\ TokenValid
    /\ handler.vpCalls = 1
    /\ ~handler.hasPermission
    /\ Rejected("Insufficient scope")

(***************************************************************************)
(* C17 (as claimed): for a POST /mcp request the checks run in a fixed     *)
(* order and the first failure is reported: an unparsable body gives       *)
(* "Invalid request" even with no token; otherwise no Authorization header *)
(* gives "Missing token"; otherwise a failed VerifyToken gives "Invalid    *)
(* token"; otherwise a false VerifyPermissions gives "Insufficient scope". *)
(* Every such rejection is HTTP 401 and the next handler is not called.    *)
(***************************************************************************)
C17_Original ==
    (Responded /\ request.isMCPPath) =>
        /\ ~request.body.ok => Rejected("Invalid request")
        /\ (request.body.ok /\ ~TokenPresent) => Rejected("Missing token")
        /\ (request.body.ok /\ TokenPresent /\ ~TokenValid) => Rejected("Invalid token")
        /\ (request.body.ok /\ TokenValid /\ PermissionDenied)
              => Rejected("Insufficient scope")

(***************************************************************************)
(* C17 (amended): the same order, for a request that is not let through    *)
(* unchecked (OAuth disabled and a method other than tools/call); every    *)
(* such rejection is HTTP 401 with the message of the first failed check,  *)
(* or HTTP 500 "OAuth configuration error" when OAuth is enabled with no   *)
(* authorization server configured; the next handler is not called, and no *)
(* later check has run.                                                    *)
(***************************************************************************)
C17_FirstFailureReported ==
    (Responded /\ request.isMCPPath) =>
        /\ ~request.body.ok =>
              /\ RejectedOrMisconfigured("Invalid request")
              /\ handler.token = <<>> /\ handler.vpCalls = 0
        /\ (request.body.ok /\ ~LetThrough /\ ~TokenPresent) =>
              /\ RejectedOrMisconfigured("Missing token")
              /\ handler.claims = EmptyMap /\ handler.vpCalls = 0
        /\ (request.body.ok /\ ~LetThrough /\ TokenPresent /\ ~TokenValid) =>
              /\ RejectedOrMisconfigured("Invalid token")
              /\ handler.vpCalls = 0
        /\ (request.body.ok /\ ~LetThrough /\ TokenValid /\ PermissionDenied) =>
              RejectedOrMisconfigured("Insufficient scope")

\* an unparsable body without a token, OAuth enabled: "Invalid request"
C17_Witness ==
    /\ Responded
    /\ request.isMCPPath
    /\ ~request.body.ok
    /\ ~TokenPresent
    /\ oauth.Enabled
    /\ Rejected("Invalid request")

(***************************************************************************)
(* C18 (as claimed): for a POST /mcp request whose method is not           *)
(* tools/call, VerifyPermissions is never invoked and the request is never *)
(* rejected with "Insufficient scope"; with OAuth disabled such a request  *)
(* reaches the next handler without any token.                             *)
(***************************************************************************)
C18_Original ==
    (InHandler /\ ParsedMCP /\ Str(request.body.Method) # "tools/call") =>
        /\ handler.vpCalls = 0
        /\ handler.msg # "Insufficient scope"
        /\ (Responded /\ ~oauth.Enabled) => (handler.status = "next" /\ handler.nextCalls = 1)

\* the store holds one role, whose only entry is {tools, "p2", "*"}, and the
\* claims of the token resolve to it
OnlyProxyEntry ==
    /\ ListRoles = {RoleConfig("ToolsAdmin", <<PermissionConfig("tools", "p2", "*")>>)}
    /\ HitRoles(handler.claims) = {"ToolsAdmin"}

(***************************************************************************)
(* C16 (as claimed): for a tools/call request naming the tool "P:T", the   *)
(* decider is asked about objectType "tools", proxy P and objectName T,    *)
(* each at the position of the parameter the decider matches it against;   *)
(* a resolved role whose only entry is {tools, P, "*"} authorizes every    *)
(* tool of proxy P and no tool of another proxy.                           *)
(***************************************************************************)
C16_Original ==
    (ToolCallRequest /\ handler.vpCalls > 0 /\ Len(request.body.Name) = 3) =>
        /\ handler.args = <<"tools", request.body.Name[1], request.body.Name[3]>>
        /\ OnlyProxyEntry => (handler.hasPermission <=> request.body.Name[1] = "p2")

(***************************************************************************)
(* The scope-set policy: BaseProvider.VerifyPermissions(toolName, claims)  *)
(* over authCfg.Permissions (tool pattern -> required scopes) and          *)
(* authCfg.Mappings ("claim:value" -> scopes).  A tool name and a pattern  *)
(* are sequences of characters.                                            *)
(***************************************************************************)
ScopeSet == {"scope:1", "scope:2"}

ScopeToolInputs == {<<"t", "1">>, <<"t", "2">>, <<"x">>}

PermissionsInputs ==
    {EmptyMap,
     MapPut(EmptyMap, <<"*">>, <<"scope:1">>),
     MapPut(MapPut(EmptyMap, <<"t", "1">>, <<"scope:1", "scope:2">>), <<"*">>, <<"scope:2">>),
     MapPut(MapPut(EmptyMap, <<"t", "*">>, <<"scope:1", "scope:2">>), <<"*">>, <<"scope:1">>),
     MapPut(EmptyMap, <<"t", "1">>, <<>>),
     MapPut(MapPut(EmptyMap, <<"t", "2">>, <<>>), <<"*">>, <<"scope:1">>)}

MappingsInputs ==
    {MapPut(EmptyMap, "groups:Base", <<"scope:1">>),
     MapPut(MapPut(EmptyMap, "groups:Base", <<"scope:1">>), "groups:Admin", <<"scope:2">>),
     MapPut(EmptyMap, "groups:Admin", <<"scope:1", "scope:2">>)}

OptionsInputs ==
    [ScopeMode : {"any", "all", ""}, DefaultScope : {<<>>, <<"scope:1">>}]

ScopeClaimInputs ==
    {EmptyMap,
     MapPut(EmptyMap, "groups", StringValue("Admin")),
     MapPut(EmptyMap, "groups", StringsValue(<<"Base">>)),
     MapPut(EmptyMap, "groups", StringsValue(<<"Base", "Admin">>)),
     MapPut(EmptyMap, "groups", MixedValue(<<StrAtom("Base"), IntAtom(7)>>)),
     MapPut(MapPut(EmptyMap, "groups", StringsValue(<<"Base">>)),
            "email_verified", BoolValue(TRUE))}

\* the %s verb of fmt.Sprintf applied to one element
SprintfS(a) ==
    CASE a.kind = "string" -> a.s
      [] a.kind = "bool" -> "%!s(bool=" \o (IF a.b THEN "true" ELSE "false") \o ")"
      [] a.kind = "int" -> "%!s(int=" \o ToString(a.n) \o ")"

\* the strings one claim contributes: fmt.Sprintf("%s:%s", claim, v)
flattenOne(claim, raw) ==
    [i \in 1..Len(raw.elems) |-> claim \o ":" \o SprintfS(raw.elems[i])]

flattenSupported(raw) == raw.type \in {"string", "[]string", "[]interface{}"}

RECURSIVE flattenLoop(_, _, _)
flattenLoop(out, cs, order) ==
    IF order = <<>>
    THEN [list |-> out, err |-> ""]
    ELSE IF ~flattenSupported(cs[Head(order)])
    THEN [list |-> <<>>, err |-> "unsupported type"]
    ELSE flattenLoop(out \o flattenOne(Head(order), cs[Head(order)]), cs, Tail(order))

\* flattenClaims, the map being ranged over in the given order
flattenClaims(cs, order) == flattenLoop(<<>>, cs, order)

RECURSIVE Glob(_, _)
\* filepath.Match for patterns of literal characters and "*"
Glob(pattern, name) ==
    IF pattern = <<>>
    THEN name = <<>>
    ELSE IF Head(pattern) = "*"
    THEN \/ Glob(Tail(pattern), name)
         \/ (name # <<>> /\ Head(name) # "/" /\ Glob(pattern, Tail(name)))
    ELSE name # <<>> /\ Head(name) = Head(pattern) /\ Glob(Tail(pattern), Tail(name))

RECURSIVE firstMatch(_, _)
firstMatch(toolName, order) ==
    IF order = <<>>
    THEN <<>>
    ELSE IF Glob(Head(order), toolName)
    THEN authCfg.Permissions[Head(order)]
    ELSE firstMatch(toolName, Tail(order))

\* mutant of getRequiredScopes: the direct lookup is skipped
getRequiredScopes_patternsOnly(toolName, order) == firstMatch(toolName, order)

\* getRequiredScopes, the patterns being ranged over in the given order
getRequiredScopes(toolName, order) ==
    IF toolName \in DOMAIN authCfg.Permissions
    THEN authCfg.Permissions[toolName]
    ELSE firstMatch(toolName, order)

\* getUserScopes: the scope set, before its conversion to a slice
scopeSetOf(flattenedClaims) ==
    UNION {Range(authCfg.Mappings[flattenedClaims[i]]) :
              i \in {j \in 1..Len(flattenedClaims) :
                        flattenedClaims[j] \in DOMAIN authCfg.Mappings}}

\* mutant of hasAllScopes: one required scope is enough
hasAllScopes_one(userScopes, requiredScopes) ==
    \E i \in 1..Len(requiredScopes) : requiredScopes[i] \in Range(userScopes)

hasAllScopes(userScopes, requiredScopes) ==
    \A i \in 1..Len(requiredScopes) : requiredScopes[i] \in Range(userScopes)

hasAnyScope(userScopes, requiredScopes) ==
    \E i \in 1..Len(requiredScopes) : requiredScopes[i] \in Range(userScopes)

hasRequiredPermission(userScopes, requiredScopes, scopeMode) ==
    IF Len(requiredScopes) = 0
    THEN TRUE
    ELSE IF scopeMode = "all"
    THEN hasAllScopes(userScopes, requiredScopes)
    ELSE hasAnyScope(userScopes, requiredScopes)

\* mutant of defaultAllowed: a tool without required scopes is open to all
defaultAllowed_always(options) == TRUE

\* return b.authCfg.Options.DefaultScope != nil
defaultAllowed(options) == options.DefaultScope # <<>>

InitScope ==
    /\ proxies = EmptyMap
    /\ roles = EmptyMap
    /\ attributeToRoles = EmptyMap
    /\ werr = ""
    /\ NoCall
    /\ NoMatch
    /\ NoMw
    /\ NoConc
    /\ NoLater
    /\ authCfg \in [Permissions : PermissionsInputs, Mappings : MappingsInputs,
                    Options : OptionsInputs]
    /\ scopeCall = NoScopeCall

\* the locals and the result of VerifyPermissions(toolName, cs), the claims
\* and the permissions table being ranged over in some order
scopeInvoke(toolName, cs) ==
    \E corder \in Orderings(DOMAIN cs), porder \in Orderings(DOMAIN authCfg.Permissions) :
      LET flat == flattenClaims(cs, corder)
          requiredScopes == getRequiredScopes(toolName, porder)
      IN  \E userScopes \in Orderings(scopeSetOf(flat.list)) :
            scopeCall' =
              [(IF flat.err # ""
                THEN [NoScopeCall EXCEPT !.done = TRUE, !.toolName = toolName,
                                         !.claims = cs, !.err = flat.err]
                ELSE IF Len(requiredScopes) = 0
                THEN [NoScopeCall EXCEPT !.done = TRUE, !.toolName = toolName,
                                         !.claims = cs, !.flattenedClaims = flat.list,
                                         !.result = defaultAllowed(authCfg.Options)]
                ELSE [NoScopeCall EXCEPT
                        !.done = TRUE, !.toolName = toolName, !.claims = cs,
                        !.flattenedClaims = flat.list,
                        !.requiredScopes = requiredScopes, !.userScopes = userScopes,
                        !.result = hasRequiredPermission(userScopes, requiredScopes,
                                                         authCfg.Options.ScopeMode)])
               EXCEPT !.prev = IF scopeCall.done
                               THEN IF scopeCall.result THEN "true" ELSE "false"
                               ELSE "none"]

\* one call of VerifyPermissions(toolName, claims)
ScopeVerifyPermissions ==
    /\ ~scopeCall.done
    /\ \E toolName \in ScopeToolInputs, cs \in ScopeClaimInputs : scopeInvoke(toolName, cs)
    /\ UNCHANGED <<coreVars, mwVars, concVars, authCfg>>

\* the caller calls again with the same tool name and claims
ScopeCallAgain ==
    /\ scopeCall.done
    /\ scopeCall.prev = "none"
    /\ scopeInvoke(scopeCall.toolName, scopeCall.claims)
    /\ UNCHANGED <<coreVars, mwVars, concVars, authCfg>>

\* the caller takes the result
ScopeReturn ==
    /\ scopeCall.done
    /\ scopeCall' = NoScopeCall
    /\ UNCHANGED <<coreVars, mwVars, concVars, authCfg>>

NextScope ==
    \/ ScopeVerifyPermissions
    \/ ScopeCallAgain
    \/ ScopeReturn

ScopeSpec == InitScope /\ [][NextScope]_vars

\* the "claim:value" pairs of the claims of the call, none when a claim
\* cannot be flattened
FlatPairs ==
    IF \E k \in DOMAIN scopeCall.claims : ~flattenSupported(scopeCall.claims[k])
    THEN {}
    ELSE UNION {{k \o ":" \o SprintfS(scopeCall.claims[k].elems[i]) :
                    i \in 1..Len(scopeCall.claims[k].elems)} : k \in DOMAIN scopeCall.claims}

\* the user's scope set: the union of the scopes mapped from each pair
UserScopeSet ==
    UNION {Range(authCfg.Mappings[q]) : q \in FlatPairs \cap DOMAIN authCfg.Mappings}

\* the scope lists the configuration may require for the tool of the call
RequiredCandidates ==
    {getRequiredScopes(scopeCall.toolName, o) : o \in Orderings(DOMAIN authCfg.Permissions)}

\* the verdict of the policy for one required scope list
PolicyVerdict(required) ==
    IF authCfg.Options.ScopeMode = "all"
    THEN Range(required) \subseteq UserScopeSet
    ELSE Range(required) \cap UserScopeSet # {}

(***************************************************************************)
(* Concurrent VerifyPermissions calls on one provider                      *)
(* Each in-flight request runs its own invocation; the goroutines of all   *)
(* invocations interleave.  The store is not written while they run.       *)
(***************************************************************************)
\* number of invocations in flight at once
ConcCalls == 2

ConcClaimInputs ==
    {EmptyMap}
    \cup {MapPut(EmptyMap, "Groups", v) :
            v \in {StringValue("group1"), BoolValue(TRUE), StringsValue(<<"group1", "true">>)}}

\* the stores the concurrent calls read: two roles that grant different
\* things; and a mapping that names a role deleted after it was written
ConcStores ==
    {[proxies |-> EmptyMap,
      roles |-> MapPut(MapPut(EmptyMap, "Admin",
                              RoleConfig("Admin", <<PermissionConfig("*", "*", "*")>>)),
                       "ToolsAdmin",
                       RoleConfig("ToolsAdmin", <<PermissionConfig("tools", "*", "*")>>)),
      attributeToRoles |->
          MapPut(MapPut(EmptyMap, AttributeMapKey("Groups", "group1"),
                        AttributeToRolesConfig("Groups", "group1", <<"Admin">>)),
                 AttributeMapKey("Groups", "true"),
                 AttributeToRolesConfig("Groups", "true", <<"ToolsAdmin">>))],
     [proxies |-> EmptyMap,
      roles |-> MapPut(EmptyMap, "ToolsAdmin",
                       RoleConfig("ToolsAdmin", <<PermissionConfig("prompts", "*", "*")>>)),
      attributeToRoles |->
          MapPut(MapPut(EmptyMap, AttributeMapKey("Groups", "group1"),
                        AttributeToRolesConfig("Groups", "group1", <<"Admin", "ToolsAdmin">>)),
                 AttributeMapKey("Groups", "true"),
                 AttributeToRolesConfig("Groups", "true", <<"ToolsAdmin">>))]}

\* no invocation in slot c
NoConcCall ==
    [pc |-> "idle", claims |-> EmptyMap, objectType |-> "", proxy |-> "", objectName |-> "",
     roleNames |-> <<>>, gpc |-> <<>>, grole |-> <<>>, gtmp |-> <<>>, gerr |-> 0,
     result |-> FALSE, overlap |-> FALSE]

\* var ( mu sync.Mutex; list []rolePerm )
NoFrame == [mu |-> 0, list |-> <<>>]

\* mutant of frameOf: one mu and one list for every invocation
frameOf_shared(c) == 1

\* the frame that holds the `mu` and `list` of invocation c: they are locals
frameOf(c) == c

\* the identity under which goroutine i of invocation c holds a mutex
holder(c, i) == c * (Cardinality(RoleNameSet) + 1) + i

\* another invocation is between its fan-out and its g.Wait()
OtherInFlight(c) == \E d \in 1..Len(calls) : d # c /\ calls[d].pc = "wait"

InitConc ==
    /\ \E st \in ConcStores :
          /\ proxies = st.proxies
          /\ roles = st.roles
          /\ attributeToRoles = st.attributeToRoles
    /\ werr = ""
    /\ NoCall
    /\ NoMatch
    /\ NoMw
    /\ NoScope
    /\ NoLater
    /\ calls = [c \in 1..ConcCalls |-> NoConcCall]
    /\ frames = [f \in 1..ConcCalls |-> NoFrame]

\* entry of invocation c up to the start of its fetch goroutines
ConcCall(c) ==
    /\ calls[c].pc \in {"idle", "returned"}
    /\ \E cs \in ConcClaimInputs, ot \in ObjectTypeInputs, px \in ProxyArgInputs,
          on \in ObjectNameInputs :
        \E order \in Orderings(DOMAIN cs) :
          \E rs \in Orderings(attributeToRoles_out(cs, order)) :
            calls' = [calls EXCEPT ![c] =
                        [pc |-> IF Len(rs) = 0 THEN "returned" ELSE "wait",
                         claims |-> cs, objectType |-> ot, proxy |-> px, objectName |-> on,
                         roleNames |-> rs,
                         gpc |-> [i \in 1..Len(rs) |-> "get"],
                         grole |-> [i \in 1..Len(rs) |-> RoleConfig("", <<>>)],
                         gtmp |-> [i \in 1..Len(rs) |-> <<>>],
                         gerr |-> 0, result |-> FALSE, overlap |-> FALSE]]
    /\ frames' = IF Len(calls'[c].roleNames) = 0
                 THEN frames
                 ELSE [frames EXCEPT ![frameOf(c)] = NoFrame]
    /\ UNCHANGED <<coreVars, mwVars, scopeVars>>

\* role, err := b.storage.GetRole(ctx, roleName)
ConcGoGetRole(c, i) ==
    /\ calls[c].pc = "wait"
    /\ calls[c].gpc[i] = "get"
    /\ calls' = IF GetRole(calls[c].roleNames[i]).err # ""
                THEN [calls EXCEPT ![c].gpc[i] = "failed",
                                   ![c].gerr = IF @ = 0 THEN i ELSE @]
                ELSE [calls EXCEPT ![c].gpc[i] = "lock",
                                   ![c].grole[i] = GetRole(calls[c].roleNames[i]).role]
    /\ UNCHANGED <<coreVars, mwVars, scopeVars, frames>>

\* mu.Lock()
ConcGoLock(c, i) ==
    /\ calls[c].pc = "wait"
    /\ calls[c].gpc[i] = "lock"
    /\ lockFree(frames[frameOf(c)].mu)
    /\ frames' = [frames EXCEPT ![frameOf(c)].mu = holder(c, i)]
    /\ calls' = [calls EXCEPT ![c].gpc[i] = "read"]
    /\ UNCHANGED <<coreVars, mwVars, scopeVars>>

\* list = append(list, ...): the read of list
ConcGoAppendRead(c, i) ==
    /\ calls[c].pc = "wait"
    /\ calls[c].gpc[i] = "read"
    /\ calls' = [calls EXCEPT ![c].gpc[i] = "write",
                              ![c].gtmp[i] = frames[frameOf(c)].list]
    /\ UNCHANGED <<coreVars, mwVars, scopeVars, frames>>

\* list = append(list, ...): the write of list; mu.Unlock(); return nil
ConcGoAppendWrite(c, i) ==
    /\ calls[c].pc = "wait"
    /\ calls[c].gpc[i] = "write"
    /\ frames' = [frames EXCEPT ![frameOf(c)] =
                    [mu |-> 0,
                     list |-> Append(calls[c].gtmp[i],
                                     rolePerm(calls[c].roleNames[i],
                                              calls[c].grole[i].Permissions))]]
    /\ calls' = [calls EXCEPT ![c].gpc[i] = "done",
                              ![c].gtmp[i] = <<>>,
                              ![c].overlap = @ \/ OtherInFlight(c)]
    /\ UNCHANGED <<coreVars, mwVars, scopeVars>>

\* g.Wait() returns; then the evaluation loop, unless a fetch failed
ConcWaitAndEvaluate(c) ==
    /\ calls[c].pc = "wait"
    /\ allReturned(calls[c].gpc)
    /\ calls' = [calls EXCEPT
                   ![c].pc = "returned",
                   ![c].result = IF groupFailed(calls[c].gerr)
                                 THEN FALSE
                                 ELSE evaluate(frames[frameOf(c)].list, calls[c].objectType,
                                               calls[c].proxy, calls[c].objectName)]
    /\ UNCHANGED <<coreVars, mwVars, scopeVars, frames>>

NextConc ==
    \/ \E c \in 1..ConcCalls : ConcCall(c)
    \/ \E c \in 1..ConcCalls : \E i \in 1..Len(calls[c].gpc) : ConcGoGetRole(c, i)
    \/ \E c \in 1..ConcCalls : \E i \in 1..Len(calls[c].gpc) : ConcGoLock(c, i)
    \/ \E c \in 1..ConcCalls : \E i \in 1..Len(calls[c].gpc) : ConcGoAppendRead(c, i)
    \/ \E c \in 1..ConcCalls : \E i \in 1..Len(calls[c].gpc) : ConcGoAppendWrite(c, i)
    \/ \E c \in 1..ConcCalls : ConcWaitAndEvaluate(c)

ConcSpec == InitConc /\ [][NextConc]_vars

\* the invocation in slot c has returned
ConcReturned(c) == calls[c].pc = "returned"

\* what the invocation in slot c returns when it runs alone over the store
SoloResult(c) ==
    VerifyPermissionsOf(calls[c].objectType, calls[c].proxy, calls[c].objectName,
                        calls[c].claims)

(***************************************************************************)
(* C12: with an unchanged store, every VerifyPermissions call that runs    *)
(* concurrently with other calls on the same provider returns what it      *)
(* returns when it runs alone: the list of fetched roles and its mutex     *)
(* belong to the call.                                                     *)
(***************************************************************************)
C12_ConcurrentCallsIndependent ==
    \A c \in 1..ConcCalls : ConcReturned(c) => calls[c].result = SoloResult(c)

\* two calls that appended while the other was in flight returned different results
C12_Witness ==
    /\ \A c \in 1..ConcCalls :
          /\ ConcReturned(c)
          /\ calls[c].overlap
          /\ calls[c].roleNames # <<>>
    /\ calls[1].result # calls[2].result

(***************************************************************************)
(* C20: in the scope-set policy, when the required scope set of the tool   *)
(* is non-empty, the call is authorized, with scope mode "all", exactly    *)
(* when every required scope is in the user's scope set, and with any      *)
(* other mode exactly when at least one is; the user's scope set is the    *)
(* union of the scopes mapped from each flattened "claim:value" pair.      *)
(***************************************************************************)
C20_ScopePolicy ==
    scopeCall.done =>
        /\ (scopeCall.err = "" /\ scopeCall.requiredScopes # <<>>) =>
              /\ scopeCall.requiredScopes \in RequiredCandidates
              /\ Range(scopeCall.userScopes) = UserScopeSet
              /\ scopeCall.result = PolicyVerdict(scopeCall.requiredScopes)
        /\ (scopeCall.err # "" /\ \A r \in RequiredCandidates : r # <<>>) =>
              \A r \in RequiredCandidates : scopeCall.result = PolicyVerdict(r)

\* mode "all", two required scopes, each mapped from another group of the user
C20_Witness ==
    /\ scopeCall.done
    /\ authCfg.Options.ScopeMode = "all"
    /\ Len(scopeCall.requiredScopes) = 2
    /\ Len(scopeCall.flattenedClaims) = 2
    /\ \A q \in FlatPairs : q \in DOMAIN authCfg.Mappings /\ Len(authCfg.Mappings[q]) = 1
    /\ scopeCall.result = TRUE

\* the permissions table has an entry for the tool of the call itself
ExactEntry == scopeCall.toolName \in DOMAIN authCfg.Permissions

\* another key of the permissions table matches the tool of the call as a pattern
WildcardAlsoMatches ==
    \E p \in DOMAIN authCfg.Permissions :
        /\ p # scopeCall.toolName
        /\ "*" \in Range(p)
        /\ Glob(p, scopeCall.toolName)

\* the call went past flattenClaims
ScopeDecided == scopeCall.done /\ scopeCall.err = ""

(***************************************************************************)
(* C21: when the permissions table has an entry whose key is the tool name *)
(* and also a wildcard pattern that matches the tool name, the required    *)
(* scopes of the decision are those of the exact entry: the result is the  *)
(* verdict over them (the default-scope answer when they are empty).       *)
(***************************************************************************)
C21_ExactEntryWins ==
    (ScopeDecided /\ ExactEntry /\ WildcardAlsoMatches) =>
        /\ scopeCall.requiredScopes = authCfg.Permissions[scopeCall.toolName]
        /\ scopeCall.result =
              IF authCfg.Permissions[scopeCall.toolName] = <<>>
              THEN authCfg.Options.DefaultScope # <<>>
              ELSE PolicyVerdict(authCfg.Permissions[scopeCall.toolName])

\* the exact entry denies a user whom the wildcard pattern would let through
C21_Witness ==
    /\ ScopeDecided /\ ExactEntry /\ WildcardAlsoMatches
    /\ scopeCall.requiredScopes # <<>>
    /\ \E p \in DOMAIN authCfg.Permissions :
          /\ p # scopeCall.toolName
          /\ Glob(p, scopeCall.toolName)
          /\ PolicyVerdict(authCfg.Permissions[p])
    /\ scopeCall.result = FALSE

\* no key of the permissions table gives the tool of the call a required scope
NoRequiredScopes == \A r \in RequiredCandidates : r = <<>>

\* default_scope: null
DefaultScopeNull == authCfg.Options.DefaultScope = <<>>

(***************************************************************************)
(* C22: with default_scope null, a call to a tool for which no permission  *)
(* pattern yields a required scope is denied whatever the claims; and when *)
(* required scopes exist and the user holds none of them the call is       *)
(* denied whatever default_scope is.                                       *)
(***************************************************************************)
C22_DenyByDefault ==
    scopeCall.done =>
        /\ (DefaultScopeNull /\ NoRequiredScopes) => scopeCall.result = FALSE
        /\ (scopeCall.err = "" /\ scopeCall.requiredScopes # <<>>
              /\ Range(scopeCall.requiredScopes) \cap UserScopeSet = {}) =>
                 scopeCall.result = FALSE

\* a user who holds scopes is denied a tool nothing is required for
C22_Witness ==
    /\ ScopeDecided
    /\ DefaultScopeNull
    /\ NoRequiredScopes
    /\ authCfg.Permissions # EmptyMap
    /\ UserScopeSet # {}
    /\ scopeCall.result = FALSE

(***************************************************************************)
(* The backend proxy (internal/proxy/proxy.go): one proxy, its client      *)
(* pointer and its mutex, used by the goroutines of the tool calls, of the *)
(* tool discovery and of the heartbeat.  Durations are in milliseconds.    *)
(***************************************************************************)
initialBackoff == 500

maxBackoff == 5000

maxRetriesOnConnect == 5

\* the goroutines that use the proxy at once
ProxyThreads == 3

\* the outcomes of a backend call on an open client
BackendOutcomes == {"ok", "transient error", "other error"}

\* mutant of isTransient: every error is transient
isTransient_any(err) == err # "ok"

\* isTransient(err)
isTransient(err) == err = "transient error"

\* a goroutine that is not inside an operation of the proxy
IdleThread(ops) ==
    [ops |-> ops, op |-> "idle", pc |-> "idle", site |-> 0, i |-> 0, b |-> 0, slept |-> <<>>,
     dials |-> 0, ecRet |-> "", bcalls |-> 0, first |-> "", reset |-> FALSE, ret |-> ""]

\* every request goroutine may call a tool or list the tools
ConcurrentCallers ==
    [t \in 1..ProxyThreads |->
        IdleThread(IF t = ProxyThreads THEN {"heartbeat"} ELSE {"CallTool", "GetTools"})]

\* one goroutine calls tools, one lists the tools, one is the heartbeat
SingleCaller ==
    [t \in 1..ProxyThreads |->
        IdleThread(IF t = ProxyThreads THEN {"heartbeat"}
                   ELSE IF t = 1 THEN {"CallTool"} ELSE {"GetTools"})]

InitProxyWith(ths) ==
    /\ proxies = EmptyMap
    /\ roles = EmptyMap
    /\ attributeToRoles = EmptyMap
    /\ werr = ""
    /\ NoCall
    /\ NoMatch
    /\ NoMw
    /\ NoScope
    /\ NoConc
    /\ NoAccess
    /\ NoTools
    /\ NoRefresh
    /\ NoPg
    /\ NoEquiv
    /\ pClient \in {"nil", "open"}
    /\ pMu = 0
    /\ threads = ths

InitProxy == InitProxyWith(ConcurrentCallers)

InitProxySingle == InitProxyWith(SingleCaller)

\* mutant of nextBackoff: the delay doubles without a ceiling
nextBackoff_uncapped(b) == b * 2

\* b *= 2; if b > maxBackoff { b = maxBackoff }
nextBackoff(b) == IF b * 2 > maxBackoff THEN maxBackoff ELSE b * 2

\* the caller of ensureConnected takes its result r ("nil" or "err")
afterEnsure(th, r) ==
    IF r = "err"
    THEN [th EXCEPT !.ecRet = r, !.pc = "done",
                    !.ret = IF th.op = "heartbeat" THEN "heartbeat failed"
                            ELSE "unable to connect"]
    ELSE IF th.op = "heartbeat"
    THEN [th EXCEPT !.ecRet = r, !.pc = "done", !.ret = "ok"]
    ELSE [th EXCEPT !.ecRet = r, !.pc = IF th.op = "CallTool" THEN "call" ELSE "list"]

\* CallTool, GetTools or a heartbeat tick begins: it calls ensureConnected
ProxyStart(t) ==
    /\ threads[t].pc = "idle"
    /\ \E op \in threads[t].ops :
          threads' = [threads EXCEPT ![t] =
                        [IdleThread(threads[t].ops) EXCEPT !.op = op, !.pc = "ensure",
                                                           !.site = 1]]
    /\ UNCHANGED <<notProxyVars, pClient, pMu>>

\* ensureConnected: p.mu.Lock(); if p.client != nil { return nil }; b := initialBackoff
EnsureEnter(t) ==
    /\ threads[t].pc = "ensure"
    /\ pMu = 0
    /\ IF pClient # "nil"
       THEN /\ threads' = [threads EXCEPT ![t] =
                             afterEnsure([threads[t] EXCEPT !.i = 0, !.dials = 0,
                                                            !.slept = <<>>], "nil")]
            /\ UNCHANGED pMu
       ELSE /\ threads' = [threads EXCEPT ![t] =
                             [threads[t] EXCEPT !.pc = "dial", !.i = 0, !.dials = 0,
                                                !.slept = <<>>, !.b = initialBackoff]]
            /\ pMu' = t
    /\ UNCHANGED <<notProxyVars, pClient>>

\* err := p.dial(ctx); if err == nil { return nil }
EnsureDial(t) ==
    /\ threads[t].pc = "dial"
    /\ threads[t].i < maxRetriesOnConnect
    /\ \E ok \in BOOLEAN :
          IF ok
          THEN /\ pClient' = "open"
               /\ pMu' = 0
               /\ threads' = [threads EXCEPT ![t] =
                                afterEnsure([threads[t] EXCEPT !.dials = @ + 1], "nil")]
          ELSE /\ threads' = [threads EXCEPT ![t] =
                                [threads[t] EXCEPT !.dials = @ + 1, !.pc = "sleep"]]
               /\ UNCHANGED <<pClient, pMu>>
    /\ UNCHANGED notProxyVars

\* time.Sleep(b); b *= 2 (capped); i++; after the last attempt return the error
EnsureSleep(t) ==
    /\ threads[t].pc = "sleep"
    /\ LET th == [threads[t] EXCEPT !.slept = Append(@, threads[t].b),
                                    !.b = nextBackoff(threads[t].b),
                                    !.i = @ + 1]
       IN  IF th.i < maxRetriesOnConnect
           THEN /\ threads' = [threads EXCEPT ![t] = [th EXCEPT !.pc = "dial"]]
                /\ UNCHANGED pMu
           ELSE /\ threads' = [threads EXCEPT ![t] = afterEnsure(th, "err")]
                /\ pMu' = 0
    /\ UNCHANGED <<notProxyVars, pClient>>

\* res, err := p.client.CallTool(ctx, req): the client pointer is read without the lock
BackendCallTool(t) ==
    /\ threads[t].pc = "call"
    /\ IF pClient = "nil"
       THEN threads' = [threads EXCEPT ![t] = [threads[t] EXCEPT !.pc = "done",
                                                                 !.ret = "nil dereference"]]
       ELSE \E out \in BackendOutcomes :
              threads' = [threads EXCEPT ![t] =
                 IF threads[t].site = 1
                 THEN IF out = "ok" \/ ~isTransient(out)
                      THEN [threads[t] EXCEPT !.bcalls = @ + 1, !.first = out,
                                              !.pc = "done", !.ret = out]
                      ELSE [threads[t] EXCEPT !.bcalls = @ + 1, !.first = out, !.pc = "reset"]
                 ELSE [threads[t] EXCEPT !.bcalls = @ + 1, !.pc = "done", !.ret = out]]
    /\ UNCHANGED <<notProxyVars, pClient, pMu>>

\* p.resetClient(), then the second ensureConnected is called
ResetClient(t) ==
    /\ threads[t].pc = "reset"
    /\ pMu = 0
    /\ pClient' = "nil"
    /\ threads' = [threads EXCEPT ![t] = [threads[t] EXCEPT !.reset = TRUE, !.pc = "ensure",
                                                            !.site = 2, !.ecRet = ""]]
    /\ UNCHANGED <<notProxyVars, pMu>>

\* toolsResult, err := p.client.ListTools(ctx, ...)
BackendListTools(t) ==
    /\ threads[t].pc = "list"
    /\ IF pClient = "nil"
       THEN threads' = [threads EXCEPT ![t] = [threads[t] EXCEPT !.pc = "done",
                                                                 !.ret = "nil dereference"]]
       ELSE \E out \in BackendOutcomes :
              threads' = [threads EXCEPT ![t] = [threads[t] EXCEPT !.bcalls = @ + 1,
                                                                   !.pc = "done", !.ret = out]]
    /\ UNCHANGED <<notProxyVars, pClient, pMu>>

\* the operation has returned to its caller
ProxyFinish(t) ==
    /\ threads[t].pc = "done"
    /\ threads' = [threads EXCEPT ![t] = IdleThread(threads[t].ops)]
    /\ UNCHANGED <<notProxyVars, pClient, pMu>>

NextProxy ==
    \/ \E t \in 1..Len(threads) : ProxyStart(t)
    \/ \E t \in 1..Len(threads) : EnsureEnter(t)
    \/ \E t \in 1..Len(threads) : EnsureDial(t)
    \/ \E t \in 1..Len(threads) : EnsureSleep(t)
    \/ \E t \in 1..Len(threads) : BackendCallTool(t)
    \/ \E t \in 1..Len(threads) : ResetClient(t)
    \/ \E t \in 1..Len(threads) : BackendListTools(t)
    \/ \E t \in 1..Len(threads) : ProxyFinish(t)

ProxySpec == InitProxy /\ [][NextProxy]_vars

ProxySingleSpec == InitProxySingle /\ [][NextProxy]_vars

\* the goroutines get to run, and a goroutine waiting for the mutex gets it
\* (sync.Mutex hands a starving waiter the lock)
ProxyFairness ==
    /\ WF_vars(\E t \in 1..Len(threads) : EnsureDial(t) \/ EnsureSleep(t))
    /\ \A t \in 1..ProxyThreads : SF_vars(t <= Len(threads) /\ EnsureEnter(t))

ProxyFairSpec == ProxySingleSpec /\ ProxyFairness

\* thread t is inside ensureConnected
InEnsure(t) == threads[t].pc \in {"ensure", "dial", "sleep"}

\* the delays a thread slept follow the schedule 500, 1000, 2000, 4000, 5000
BackoffSchedule(slept) ==
    \A k \in 1..Len(slept) :
        /\ slept[k] <= 5000
        /\ slept[k] = IF k = 1 THEN 500
                      ELSE IF 2 * slept[k - 1] > 5000 THEN 5000 ELSE 2 * slept[k - 1]

\* what one ensureConnected invocation has done so far
EnsureBounded(th) ==
    /\ th.dials <= 5
    /\ BackoffSchedule(th.slept)
    /\ th.ecRet = "nil" => (th.dials = 0 \/ Len(th.slept) = th.dials - 1)
    /\ th.ecRet = "err" => (th.dials = 5 /\ Len(th.slept) = 5)
    /\ th.pc = "dial" => Len(th.slept) = th.dials
    /\ th.pc = "sleep" => Len(th.slept) = th.dials - 1

\* the steps on which ensureConnected returns
EnsureReturns(t) ==
    /\ (threads[t].pc = "ensure" /\ threads'[t].pc # "ensure" /\ pClient # "nil") =>
          /\ threads'[t].ecRet = "nil"
          /\ threads'[t].dials = 0
          /\ pClient' = pClient
    /\ (threads[t].ecRet # "err" /\ threads'[t].ecRet = "err") => pClient' = "nil"
    /\ (threads[t].pc = "dial" /\ threads'[t].ecRet = "nil") => pClient' = "open"

(***************************************************************************)
(* C23: ensureConnected always terminates; it returns nil at once when a   *)
(* client exists, else dials at most five times, returns nil on the first  *)
(* dial that succeeds, sleeps after each failed dial a delay that starts   *)
(* at 500ms, doubles and never exceeds 5s, and returns an error after the  *)
(* fifth failure, the client still being nil.                              *)
(***************************************************************************)
C23_EnsureConnectedTerminates ==
    /\ [](\A t \in 1..ProxyThreads : EnsureBounded(threads[t]))
    /\ [][\A t \in 1..ProxyThreads : EnsureReturns(t)]_vars
    /\ \A t \in 1..ProxyThreads : InEnsure(t) ~> ~InEnsure(t)

\* a call gave up after five failed dials and the full backoff schedule
C23_Witness ==
    \E t \in 1..ProxyThreads :
        /\ threads[t].ecRet = "err"
        /\ threads[t].dials = 5
        /\ threads[t].slept = <<500, 1000, 2000, 4000, 5000>>
        /\ pClient = "nil"

\* thread t has finished a CallTool whose first backend call was made
CallToolDone(t) ==
    /\ threads[t].op = "CallTool"
    /\ threads[t].pc = "done"
    /\ threads[t].first # ""

\* the first outcome is returned and the connection is left alone
FirstOutcomeReturned(th) == th.ret = th.first /\ th.bcalls = 1 /\ ~th.reset

ResetLeavesNil(t) ==
    (threads[t].pc = "reset" /\ threads'[t].pc # "reset") => pClient' = "nil"

AtDereference(t) == threads[t].pc \in {"call", "list"}

(***************************************************************************)
(* C25 as stated: under any interleaving of CallTool, GetTools,            *)
(* resetClient and the heartbeat on one proxy, the client pointer is       *)
(* non-nil wherever CallTool or GetTools dereferences it.                  *)
(***************************************************************************)
C25_Original ==
    \A t \in 1..ProxyThreads :
        /\ AtDereference(t) => pClient # "nil"
        /\ threads[t].ret # "nil dereference"

(***************************************************************************)
(* MemoryStorage under concurrent use: the admin API handlers, the fetch   *)
(* goroutines of VerifyPermissions and the proxy refresh loop call the     *)
(* store from their own goroutines.  An operation is an interval from its  *)
(* first to its last access of the maps; two operations conflict when one  *)
(* writes a map the other reads or writes.                                 *)
(***************************************************************************)
\* the goroutines that use the store at once: admin API, authorization, refresh loop
StoreGoroutines == 3

StoreOpNames(g) ==
    IF g = 1
    THEN {"SetRole", "DeleteRole", "SetAttributeToRoles", "DeleteAttributeToRoles",
          "SetProxy", "DeleteProxy"}
    ELSE IF g = 2
    THEN {"GetAttributeToRoles", "GetRole"}
    ELSE {"ListProxies"}

\* the arguments the operations are called with
RaceRole == RoleConfig("ToolsAdmin", <<PermissionConfig("tools", "p2", "*")>>)

RaceMapping == AttributeToRolesConfig("Groups", "group1", <<"ToolsAdmin">>)

RaceProxy == ProxyConfig("p2", "streamable-http", "header")

\* the maps an operation reads
mapsRead(name) ==
    CASE name = "SetRole" -> {"roles", "proxies"}
      [] name = "SetAttributeToRoles" -> {"attributeToRoles", "roles"}
      [] name = "GetRole" -> {"roles"}
      [] name = "GetAttributeToRoles" -> {"attributeToRoles"}
      [] name = "ListProxies" -> {"proxies"}
      [] OTHER -> {}

\* the maps an operation writes
mapsWritten(name) ==
    CASE name \in {"SetRole", "DeleteRole"} -> {"roles"}
      [] name \in {"SetAttributeToRoles", "DeleteAttributeToRoles"} -> {"attributeToRoles"}
      [] name \in {"SetProxy", "DeleteProxy"} -> {"proxies"}
      [] OTHER -> {}

\* operations a and b touch a common map and one of them writes it
conflicts(a, b) ==
    \/ mapsWritten(a) \cap (mapsRead(b) \cup mapsWritten(b)) # {}
    \/ mapsWritten(b) \cap mapsRead(a) # {}

\* MemoryStorage has no lock: an operation starts whatever the others do
mayEnter(g, name) == TRUE

NoStoreOp == [name |-> "", phase |-> "idle", raced |-> FALSE, out |-> ""]

InitRace ==
    /\ proxies = EmptyMap
    /\ roles = EmptyMap
    /\ attributeToRoles = EmptyMap
    /\ werr = ""
    /\ NoCall
    /\ NoMatch
    /\ NoMw
    /\ NoScope
    /\ NoConc
    /\ NoProxy
    /\ NoTools
    /\ NoRefresh
    /\ NoPg
    /\ NoEquiv
    /\ access = [g \in 1..StoreGoroutines |-> NoStoreOp]

\* goroutine g enters a store operation
StoreOpBegin(g) ==
    /\ access[g].phase = "idle"
    /\ \E name \in StoreOpNames(g) :
          /\ mayEnter(g, name)
          /\ access' = [h \in 1..Len(access) |->
                          IF h = g
                          THEN [name |-> name, phase |-> "running", out |-> "",
                                raced |-> \E k \in 1..Len(access) :
                                             /\ k # g
                                             /\ access[k].phase = "running"
                                             /\ conflicts(name, access[k].name)]
                          ELSE IF access[h].phase = "running"
                                  /\ conflicts(name, access[h].name)
                          THEN [access[h] EXCEPT !.raced = TRUE]
                          ELSE access[h]]
    /\ UNCHANGED <<storeVars, werr, notRaceVars>>

\* the value the operation returns when nothing interferes
storeOutcome(name) ==
    CASE name = "SetRole" -> SetRoleError(RaceRole)
      [] name = "SetAttributeToRoles" -> SetAttributeToRolesError(RaceMapping)
      [] name = "GetRole" -> GetRole(RaceRole.Name).err
      [] name = "GetAttributeToRoles" ->
            IF AttributeMapKey("Groups", "group1") \in DOMAIN attributeToRoles
            THEN "" ELSE "attribute to roles not found"
      [] OTHER -> ""

\* the maps after the operation
storeAfter(name) ==
    [proxies |->
        CASE name = "SetProxy" -> MapPut(proxies, RaceProxy.Name, RaceProxy)
          [] name = "DeleteProxy" -> MapDelete(proxies, RaceProxy.Name)
          [] OTHER -> proxies,
     roles |->
        CASE name = "SetRole" /\ SetRoleError(RaceRole) = "" ->
                MapPut(roles, RaceRole.Name, RaceRole)
          [] name = "DeleteRole" -> MapDelete(roles, RaceRole.Name)
          [] OTHER -> roles,
     attributeToRoles |->
        CASE name = "SetAttributeToRoles" /\ SetAttributeToRolesError(RaceMapping) = "" ->
                MapPut(attributeToRoles, AttributeMapKey("Groups", "group1"), RaceMapping)
          [] name = "DeleteAttributeToRoles" ->
                MapDelete(attributeToRoles, AttributeMapKey("Groups", "group1"))
          [] OTHER -> attributeToRoles]

\* goroutine g completes its operation
StoreOpEnd(g) ==
    /\ access[g].phase = "running"
    /\ access' = [access EXCEPT ![g].phase = "returned",
                                ![g].out = storeOutcome(access[g].name)]
    /\ proxies' = storeAfter(access[g].name).proxies
    /\ roles' = storeAfter(access[g].name).roles
    /\ attributeToRoles' = storeAfter(access[g].name).attributeToRoles
    /\ werr' = IF mapsWritten(access[g].name) # {} THEN storeOutcome(access[g].name) ELSE werr
    /\ UNCHANGED notRaceVars

\* an unsynchronised map access that met a write: the runtime may stop the
\* program (fatal error: concurrent map read and map write), or the
\* operation may see the map in either state
StoreOpFault(g) ==
    /\ access[g].phase = "running"
    /\ access[g].raced
    /\ \E out \in {"fatal error", "", "not found"} :
          access' = [access EXCEPT ![g].phase = "returned", ![g].out = out]
    /\ UNCHANGED <<storeVars, werr, notRaceVars>>

\* the caller takes the result
StoreOpReturn(g) ==
    /\ access[g].phase = "returned"
    /\ access[g].out # "fatal error"
    /\ access' = [access EXCEPT ![g] = NoStoreOp]
    /\ UNCHANGED <<storeVars, werr, notRaceVars>>

NextRace ==
    \/ \E g \in 1..Len(access) : StoreOpBegin(g)
    \/ \E g \in 1..Len(access) : StoreOpEnd(g)
    \/ \E g \in 1..Len(access) : StoreOpFault(g)
    \/ \E g \in 1..Len(access) : StoreOpReturn(g)

RaceSpec == InitRace /\ [][NextRace]_vars

\* goroutines g and h are inside conflicting store operations
Overlap(g, h) ==
    /\ g # h
    /\ access[g].phase = "running"
    /\ access[h].phase = "running"
    /\ \E m \in {"proxies", "roles", "attributeToRoles"} :
          \/ m \in mapsWritten(access[g].name) /\ m \in mapsRead(access[h].name)
          \/ m \in mapsWritten(access[h].name) /\ m \in mapsRead(access[g].name)

(***************************************************************************)
(* C26 as stated: when the admin writes run concurrently with the reads of *)
(* VerifyPermissions and of the refresh loop, no read of a store map       *)
(* overlaps a write to the same map.                                       *)
(***************************************************************************)
C26_Original ==
    /\ \A g, h \in 1..StoreGoroutines : ~Overlap(g, h)
    /\ \A g \in 1..StoreGoroutines : access[g].out # "fatal error"

(***************************************************************************)
(* C27 as stated: for every POST /mcp request whose body parses, whatever  *)
(* the method and the tool name (empty, or without ":"), the middleware    *)
(* answers with the next handler's result or with HTTP 401, and never      *)
(* indexes past the end of the split tool name.  (Taken here with a        *)
(* usable OAuth configuration, where unauth answers 401.)                  *)
(***************************************************************************)
C27_Original ==
    (Responded /\ ParsedMCP /\ ~Misconfigured) =>
        /\ handler.status # "panic"
        /\ handler.status \in {"next", "401"}

\* the call repeats one made with the same configuration, tool name and claims
ScopeRepeated == scopeCall.done /\ scopeCall.prev # "none"

(***************************************************************************)
(* C28 as stated: the scope-set VerifyPermissions is deterministic: for a  *)
(* fixed configuration, tool name and claim set every invocation returns   *)
(* the same result, also when the tool name has no exact entry and matches *)
(* several glob patterns with different required scopes.                   *)
(***************************************************************************)
C28_Original ==
    ScopeRepeated => scopeCall.prev = (IF scopeCall.result THEN "true" ELSE "false")

(***************************************************************************)
(* Runtime proxy management: Server.addProxyTools refreshes the tools of   *)
(* the MCP server from the proxies of the store, while the admin API       *)
(* writes the proxies.                                                     *)
(***************************************************************************)
RefreshProxyInputs ==
    {ProxyConfig("p1", "streamable-http", "header"),
     ProxyConfig("p2", "streamable-http", "header")}

RefreshProxyNames == {p.Name : p \in RefreshProxyInputs}

\* the tools each backend exposes
BackendTools(name) == IF name = "p1" THEN {"t1"} ELSE {"t1", "t2"}

\* toolName := proxy.GetName() + ":" + tool.Name
proxyToolName(name, tool) == <<name, ":", tool>>

\* what connecting to a proxy and listing its tools may give
RefreshOutcomes == {"tools", "unable to connect", "GetTools failed"}

InitRefresh ==
    /\ proxies = EmptyMap
    /\ roles = EmptyMap
    /\ attributeToRoles = EmptyMap
    /\ werr = ""
    /\ NoCall
    /\ NoMatch
    /\ NoMw
    /\ NoScope
    /\ NoConc
    /\ NoProxy
    /\ NoAccess
    /\ NoPg
    /\ NoEquiv
    /\ NoTools
    /\ NoRefresh

\* PUT /v1/admin/proxies
AdminSetProxy == \E p \in RefreshProxyInputs : SetProxyOf(p)

\* DELETE /v1/admin/proxies/{proxy}
AdminDeleteProxy == \E name \in RefreshProxyNames : DeleteProxyOf(name)

\* mcpServer.AddTool for every tool of the proxy: the other tools stay
toolsAfterAdd(reg, name) ==
    reg \cup {proxyToolName(name, t) : t \in BackendTools(name)}

\* time.Sleep is over; ListProxies; with no proxy mcpServer.DeleteTools() and continue
RefreshList ==
    /\ refresh.pc = "sleep"
    /\ IF DOMAIN proxies = {}
       THEN /\ registered' = {}
            /\ refresh' = [IdleRefresh EXCEPT !.cycled = TRUE]
       ELSE /\ \E order \in Orderings(DOMAIN proxies) :
                  refresh' = [pc |-> "proxies", pending |-> order, listed |-> DOMAIN proxies,
                              failed |-> FALSE, cycled |-> FALSE]
            /\ UNCHANGED registered
    /\ UNCHANGED <<proxies, werr, notRefreshVars>>

\* one proxy of the list: connect, GetTools, AddTool for each tool
RefreshProxy ==
    /\ refresh.pc = "proxies"
    /\ refresh.pending # <<>>
    /\ \E out \in RefreshOutcomes :
          /\ registered' = IF out = "tools"
                           THEN toolsAfterAdd(registered, Head(refresh.pending))
                           ELSE registered
          /\ refresh' = [refresh EXCEPT
                           !.pending = Tail(@),
                           !.failed = @ \/ out # "tools",
                           !.pc = IF Tail(refresh.pending) = <<>> THEN "sleep" ELSE "proxies",
                           !.cycled = Tail(refresh.pending) = <<>>]
    /\ UNCHANGED <<proxies, werr, notRefreshVars>>

NextRefresh ==
    \/ AdminSetProxy
    \/ AdminDeleteProxy
    \/ RefreshList
    \/ RefreshProxy

RefreshSpec == InitRefresh /\ [][NextRefresh]_vars

\* the tools exposed by the proxies that are in the store
ExposedTools ==
    UNION {{proxyToolName(name, t) : t \in BackendTools(name)} : name \in DOMAIN proxies}

\* a refresh cycle has ended: it listed the proxies that are in the store now
\* and fetched the tools of each
CycleComplete ==
    /\ refresh.pc = "sleep"
    /\ refresh.cycled
    /\ ~refresh.failed
    /\ refresh.listed = DOMAIN proxies

(***************************************************************************)
(* C29 as stated: after each refresh cycle of addProxyTools the tools      *)
(* registered on the MCP server are the tools exposed by the proxies in    *)
(* the store; a proxy deleted while another remains has its tools          *)
(* unregistered by the next cycle.                                         *)
(***************************************************************************)
C29_Original == CycleComplete => registered = ExposedTools

(***************************************************************************)
(* The two storage backends side by side: every call of the storage        *)
(* interface for roles and mappings is made on MemoryStorage (roles,       *)
(* attributeToRoles) and on PostgresStorage (pg), both starting empty.     *)
(* A row of role_permission is <<rolename, objecttype, objectname,         *)
(* proxyname>>, a row of attribute_to_roles <<attributekey,                *)
(* attributevalue, rolename>>.                                             *)
(***************************************************************************)
EquivPermissionLists ==
    {<<>>,
     <<PermissionConfig("*", "*", "*")>>,
     <<PermissionConfig("tools", "*", "*")>>,
     <<PermissionConfig("prompts", "*", "*")>>}

EquivRoleInputs == {RoleConfig(n, ps) : n \in RoleNameSet, ps \in EquivPermissionLists}

\* mappings with at least one role, for one attribute value
EquivMappingInputs ==
    {a \in AttributeToRolesInputs : a.AttributeValue = "group1" /\ Len(a.Roles) > 0}

permissionRow(name, p) == <<name, p.ObjectType, p.ObjectName, p.Proxy>>

\* the role_permission rows a RoleConfig asks for
permissionRows(role) ==
    {permissionRow(role.Name, role.Permissions[i]) : i \in 1..Len(role.Permissions)}

\* the attribute_to_roles rows an AttributeToRolesConfig asks for
mappingRows(a) == {<<a.AttributeKey, a.AttributeValue, a.Roles[i]>> : i \in 1..Len(a.Roles)}

\* INSERT ... ON CONFLICT DO NOTHING RETURNING ..., then DELETE ... NOT IN
\* (SELECT ... FROM up), in one statement: `up` holds the rows that were
\* really inserted, and the DELETE sees the rows of the key (before) as
\* they were when the statement began
upsertAndPrune(table, before, wanted) ==
    LET up == wanted \ before
    IN  (table \ {r \in before : r \notin up}) \cup up

\* PostgresStorage.SetRole: the error ("" is nil) and the tables after it
pgSetRole(db, role) ==
    IF \E i \in 1..Len(role.Permissions) : ~ObjectTypeIsValid(role.Permissions[i].ObjectType)
    THEN [err |-> "invalid object type", db |-> db]
    ELSE [err |-> "",
          db |-> [db EXCEPT
                    !.role = @ \cup {role.Name},
                    !.role_permission =
                        IF Len(role.Permissions) = 0
                        THEN {r \in @ : r[1] # role.Name}
                        ELSE upsertAndPrune(@, {r \in @ : r[1] = role.Name},
                                            permissionRows(role))]]

\* PostgresStorage.GetRole
pgGetRole(db, name) ==
    IF name \notin db.role
    THEN [err |-> "record not found", permissions |-> {}]
    ELSE [err |-> "",
          permissions |-> {PermissionConfig(r[2], r[4], r[3]) :
                              r \in {q \in db.role_permission : q[1] = name}}]

\* PostgresStorage.DeleteRole: attribute_to_roles references role without
\* ON DELETE CASCADE, role_permission with it
pgDeleteRole(db, name) ==
    IF \E r \in db.attribute_to_roles : r[3] = name
    THEN [err |-> "violates foreign key constraint", db |-> db]
    ELSE [err |-> "",
          db |-> [db EXCEPT !.role = @ \ {name},
                            !.role_permission = {r \in @ : r[1] # name}]]

\* PostgresStorage.SetAttributeToRoles
pgSetAttributeToRoles(db, a) ==
    IF \E i \in 1..Len(a.Roles) : a.Roles[i] \notin db.role
    THEN [err |-> "violates foreign key constraint", db |-> db]
    ELSE [err |-> "",
          db |-> [db EXCEPT
                    !.attribute_to_roles =
                        upsertAndPrune(@, {r \in @ : r[1] = a.AttributeKey
                                                      /\ r[2] = a.AttributeValue},
                                       mappingRows(a))]]

\* PostgresStorage.GetAttributeToRoles
pgGetAttributeToRoles(db, k, v) ==
    LET rs == {r[3] : r \in {q \in db.attribute_to_roles : q[1] = k /\ q[2] = v}}
    IN  IF rs = {} THEN [err |-> "record not found", roles |-> {}]
        ELSE [err |-> "", roles |-> rs]

\* PostgresStorage.DeleteAttributeToRoles
pgDeleteAttributeToRoles(db, k, v) ==
    [err |-> "",
     db |-> [db EXCEPT !.attribute_to_roles = {r \in @ : ~(r[1] = k /\ r[2] = v)}]]

InitEquiv ==
    /\ proxies = EmptyMap
    /\ roles = EmptyMap
    /\ attributeToRoles = EmptyMap
    /\ werr = ""
    /\ NoCall
    /\ NoMatch
    /\ NoMw
    /\ NoScope
    /\ NoConc
    /\ NoProxy
    /\ NoAccess
    /\ NoTools
    /\ NoRefresh
    /\ NoPg
    /\ NoEquiv

EquivSetRole ==
    \E role \in EquivRoleInputs :
        /\ werr' = SetRoleError(role)
        /\ roles' = IF SetRoleError(role) = "" THEN MapPut(roles, role.Name, role) ELSE roles
        /\ pg' = pgSetRole(pg, role).db
        /\ equiv' = [op |-> "SetRole", memErr |-> SetRoleError(role),
                     pgErr |-> pgSetRole(pg, role).err, memGot |-> {}, pgGot |-> {}]
        /\ UNCHANGED <<attributeToRoles, notEquivVars>>

EquivGetRole ==
    \E name \in RoleNameSet :
        /\ equiv' = [op |-> "GetRole", memErr |-> GetRole(name).err,
                     pgErr |-> pgGetRole(pg, name).err,
                     memGot |-> Range(GetRole(name).role.Permissions),
                     pgGot |-> pgGetRole(pg, name).permissions]
        /\ UNCHANGED <<roles, attributeToRoles, werr, pg, notEquivVars>>

EquivDeleteRole ==
    \E name \in RoleNameSet :
        /\ werr' = ""
        /\ roles' = MapDelete(roles, name)
        /\ pg' = pgDeleteRole(pg, name).db
        /\ equiv' = [op |-> "DeleteRole", memErr |-> "", pgErr |-> pgDeleteRole(pg, name).err,
                     memGot |-> {}, pgGot |-> {}]
        /\ UNCHANGED <<attributeToRoles, notEquivVars>>

EquivSetAttributeToRoles ==
    \E a \in EquivMappingInputs :
        /\ werr' = SetAttributeToRolesError(a)
        /\ attributeToRoles' =
              IF SetAttributeToRolesError(a) = ""
              THEN MapPut(attributeToRoles, AttributeMapKey(a.AttributeKey, a.AttributeValue), a)
              ELSE attributeToRoles
        /\ pg' = pgSetAttributeToRoles(pg, a).db
        /\ equiv' = [op |-> "SetAttributeToRoles", memErr |-> SetAttributeToRolesError(a),
                     pgErr |-> pgSetAttributeToRoles(pg, a).err, memGot |-> {}, pgGot |-> {}]
        /\ UNCHANGED <<roles, notEquivVars>>

EquivGetAttributeToRoles ==
    \E k \in AttributeKeySet :
        /\ equiv' = [op |-> "GetAttributeToRoles",
                     memErr |-> GetAttributeToRoles(k, "group1").err,
                     pgErr |-> pgGetAttributeToRoles(pg, k, "group1").err,
                     memGot |-> Range(GetAttributeToRoles(k, "group1").mapping.Roles),
                     pgGot |-> pgGetAttributeToRoles(pg, k, "group1").roles]
        /\ UNCHANGED <<roles, attributeToRoles, werr, pg, notEquivVars>>

EquivDeleteAttributeToRoles ==
    \E k \in AttributeKeySet :
        /\ werr' = ""
        /\ attributeToRoles' = MapDelete(attributeToRoles, AttributeMapKey(k, "group1"))
        /\ pg' = pgDeleteAttributeToRoles(pg, k, "group1").db
        /\ equiv' = [op |-> "DeleteAttributeToRoles", memErr |-> "",
                     pgErr |-> pgDeleteAttributeToRoles(pg, k, "group1").err,
                     memGot |-> {}, pgGot |-> {}]
        /\ UNCHANGED <<roles, notEquivVars>>

NextEquiv ==
    \/ EquivSetRole
    \/ EquivGetRole
    \/ EquivDeleteRole
    \/ EquivSetAttributeToRoles
    \/ EquivGetAttributeToRoles
    \/ EquivDeleteAttributeToRoles

EquivSpec == InitEquiv /\ [][NextEquiv]_vars

\* the last call succeeded on both backends or failed on both
SameOutcome == (equiv.memErr = "") <=> (equiv.pgErr = "")

\* the last call returned the same value on both backends
SameValue == equiv.memGot = equiv.pgGot

\* both backends hold the same roles, each with the same permissions
SameRoles ==
    \A n \in RoleNameSet :
        /\ (GetRole(n).err = "") <=> (pgGetRole(pg, n).err = "")
        /\ Range(GetRole(n).role.Permissions) = pgGetRole(pg, n).permissions

\* both backends hold the same mappings, each with the same roles
SameMappings ==
    \A k \in AttributeKeySet, v \in AttributeValueSet :
        /\ (GetAttributeToRoles(k, v).err = "") <=> (pgGetAttributeToRoles(pg, k, v).err = "")
        /\ Range(GetAttributeToRoles(k, v).mapping.Roles) = pgGetAttributeToRoles(pg, k, v).roles

\* C30: MemoryStorage and PostgresStorage are interchangeable: after every
\* sequence of SetRole, GetRole, DeleteRole, SetAttributeToRoles,
\* GetAttributeToRoles and DeleteAttributeToRoles, made on both from empty
\* stores, the last call succeeded on both or failed on both, returned the
\* same value, and both hold the same roles and mappings.
C30_Original == SameOutcome /\ SameValue /\ SameRoles /\ SameMappings

====
